---- MODULE Spec2Model ----
(***************************************************************************)
(* Verification model of mirage-brandextract-mcp: the brand-data           *)
(* normalizer (FirecrawlService.extract_brand), the generated-code parser  *)
(* and CSS assembly (GeminiService.generate_replica), the colour           *)
(* similarity score (GeminiService.calculate_color_similarity), the        *)
(* comparator (tools.compare_brands), the credentials of the two services  *)
(* and the five tools of tools.py with their collaborator requests.        *)
(*                                                                         *)
(* Representation of Python values:                                        *)
(*   str            a sequence of one-character strings, over the          *)
(*                  characters U+0000..U+00FF                              *)
(*   Optional[T]    <<>> for None, <<v>> for a value v                      *)
(*   JSON payloads  records (dict, a key that is absent is not in DOMAIN), *)
(*                  JStr(s), JInt(n), JList(l), JNull                      *)
(*   float score    an integer number of thousandths (round(x, 3) * 1000)  *)
(***************************************************************************)
EXTENDS Integers, Sequences, FiniteSets, TLC

VARIABLES pc, brand_data, text, generated,
          color1, color2, similarity,
          response, include_screenshots, brand, dumped, renormalized,
          brand1, brand2, client_open, comparison,
          env, tool, arg, gemini_ready, requests, in_flight, outcome, replies

vars == <<pc, brand_data, text, generated, color1, color2, similarity,
          response, include_screenshots, brand, dumped, renormalized,
          brand1, brand2, client_open, comparison,
          env, tool, arg, gemini_ready, requests, in_flight, outcome, replies>>

genVars == <<brand_data, text, generated>>
colorVars == <<color1, color2, similarity>>
normVars == <<response, include_screenshots, brand, dumped, renormalized>>
cmpVars == <<brand1, brand2, client_open, comparison>>
toolVars == <<env, tool, arg, gemini_ready, requests, in_flight, outcome, replies>>

(***************************************************************************)
(* Bounds of the model.                                                    *)
(***************************************************************************)
\* Longest model response, in chunks of ModelChunks, handed to the parser.
MaxChunks == 4
\* Longest model response, in chunks, where the brand record varies as well.
MaxGenChunks == 3
\* Longest colour string handed to the scorer, in pieces of ColorPieces.
MaxPieces == 4

(***************************************************************************)
(* Python str operations, on sequences of characters.                      *)
(***************************************************************************)
None == <<>>
Some(v) == <<v>>

RECURSIVE Concat(_)
\* "".join(parts)
Concat(parts) ==
    IF parts = <<>> THEN <<>> ELSE Head(parts) \o Concat(Tail(parts))

\* Whether sep occurs in s at index i (1-based).
OccursAt(s, sep, i) ==
    /\ i >= 1
    /\ i + Len(sep) - 1 <= Len(s)
    /\ SubSeq(s, i, i + Len(sep) - 1) = sep

RECURSIVE FindFrom(_, _, _)
\* Lowest index >= i at which sep occurs in s; 0 when there is none.
FindFrom(s, sep, i) ==
    IF i + Len(sep) - 1 > Len(s) THEN 0
    ELSE IF s[i] = sep[1] /\ SubSeq(s, i, i + Len(sep) - 1) = sep THEN i
    ELSE FindFrom(s, sep, i + 1)

\* sep in s
Contains(s, sep) == FindFrom(s, sep, 1) # 0

RECURSIVE split(_, _)
\* s.split(sep): the pieces between the leftmost non-overlapping occurrences
\* of sep.  Python's list index k is index k + 1 here.
split(s, sep) ==
    LET i == FindFrom(s, sep, 1)
    IN  IF i = 0 THEN <<s>>
        ELSE <<SubSeq(s, 1, i - 1)>> \o split(SubSeq(s, i + Len(sep), Len(s)), sep)

\* The characters str.strip() removes, those c with c.isspace(): the ones
\* among the 8-bit characters U+0000..U+00FF, which are the model's
\* alphabet (tab, line feed, vertical tab, form feed, carriage return, the
\* separators U+001C..U+001F, space, next line U+0085, no-break space U+00A0).
Whitespace ==
    {"\t", "\n", "", "\f", "\r", "", "", "", "", " ", "", " "}

RECURSIVE lstrip(_)
lstrip(s) ==
    IF s # <<>> /\ Head(s) \in Whitespace THEN lstrip(Tail(s)) ELSE s

RECURSIVE rstrip(_)
rstrip(s) ==
    IF s # <<>> /\ s[Len(s)] \in Whitespace
    THEN rstrip(SubSeq(s, 1, Len(s) - 1)) ELSE s

\* s.strip()
strip(s) == rstrip(lstrip(s))

(***************************************************************************)
(* schemas/brand.py: the typed records and their field defaults.           *)
(***************************************************************************)
DefaultWeights == <<400, 600, 700>>
DefaultBaseSize == <<"1", "6", "p", "x">>
DefaultLineHeight == <<"1", ".", "5">>
DefaultGrid == <<"8", "p", "x">>
DefaultBorderRadius == <<"4", "p", "x">>
DefaultPadding == <<"1", "2", "p", "x", " ", "2", "4", "p", "x">>
\* An empty dict[str, str]
EmptyDict == <<>>

BrandColors(primary, secondary, accent, background, text_, palette) ==
    [primary |-> primary, secondary |-> secondary, accent |-> accent,
     background |-> background, text |-> text_, palette |-> palette]

BrandTypography(headings, body, weights) ==
    [headings |-> headings, body |-> body, weights |-> weights,
     base_size |-> Some(DefaultBaseSize), line_height |-> Some(DefaultLineHeight)]

BrandSpacing ==
    [grid |-> DefaultGrid, margins |-> EmptyDict, padding |-> EmptyDict, gap |-> None]

ButtonStyle(bg, text_, border_radius, padding) ==
    [bg |-> bg, text |-> text_, border_radius |-> border_radius,
     padding |-> padding, border |-> None, hover_bg |-> None]

BrandButtons == [primary |-> None, secondary |-> None, outline |-> None]

BrandData(url, colors, typography, spacing, buttons, logo_url, favicon_url, screenshots) ==
    [url |-> url, colors |-> colors, typography |-> typography,
     spacing |-> spacing, buttons |-> buttons, logo_url |-> logo_url,
     favicon_url |-> favicon_url, screenshots |-> screenshots]

GeneratedCode(html, css, component_type) ==
    [html |-> html, css |-> css, component_type |-> component_type]

\* Mutant of Truthy: an empty string counts as present.
TruthyNotNone(opt) == opt # None

\* Truthiness of an Optional[str]: neither None nor the empty string.
Truthy(opt) == opt # None /\ opt[1] # <<>>

(***************************************************************************)
(* The generated-code parser of GeminiService.generate_replica.            *)
(***************************************************************************)
MarkHTML == <<"-", "-", "-", "H", "T", "M", "L", "-", "-", "-">>
MarkCSS == <<"-", "-", "-", "C", "S", "S", "-", "-", "-">>
MarkEND == <<"-", "-", "-", "E", "N", "D", "-", "-", "-">>
\* The character U+0060 (grave accent, the fence character of a code block):
\* the TLA+ lexer accepts no grave accent inside a string, so the character
\* is written as the atom "GRAVE".
Grave == "GRAVE"
FenceHTML == <<Grave, Grave, Grave, "h", "t", "m", "l">>
FenceCSS == <<Grave, Grave, Grave, "c", "s", "s">>
Fence == <<Grave, Grave, Grave>>

\* html as parsed from the model text (gemini.py 111-130)
ParseHtml(t) ==
    IF Contains(t, MarkHTML) /\ Contains(t, MarkCSS)
    THEN LET parts == split(t, MarkHTML)
         IN  IF Len(parts) > 1
             THEN strip(split(parts[2], MarkCSS)[1])
             ELSE <<>>
    ELSE IF Contains(t, FenceHTML)
         THEN strip(split(split(t, FenceHTML)[2], Fence)[1])
         ELSE <<>>

\* Mutant of ParseCss: the fenced-block fallback is tried only when neither
\* marker occurs in the text.
ParseCssNoFallbackOnLoneMarker(t) ==
    IF Contains(t, MarkHTML) /\ Contains(t, MarkCSS)
    THEN strip(split(split(t, MarkCSS)[2], MarkEND)[1])
    ELSE IF ~Contains(t, MarkHTML) /\ ~Contains(t, MarkCSS) /\ Contains(t, FenceCSS)
         THEN strip(split(split(t, FenceCSS)[2], Fence)[1])
         ELSE <<>>

\* css as parsed from the model text, before the :root block is put in front
ParseCss(t) ==
    IF Contains(t, MarkHTML) /\ Contains(t, MarkCSS)
    THEN IF Contains(t, MarkCSS)
         THEN LET css_parts == split(t, MarkCSS)
              IN  IF Len(css_parts) > 1
                  THEN strip(split(css_parts[2], MarkEND)[1])
                  ELSE <<>>
         ELSE <<>>
    ELSE IF Contains(t, FenceCSS)
         THEN strip(split(split(t, FenceCSS)[2], Fence)[1])
         ELSE <<>>

\* One declaration line of the :root block: f"  --name: {value};"
Declaration(name, value) == <<" ", " ", "-", "-">> \o name \o <<":", " ">> \o value \o <<";">>

RECURSIVE JoinLines(_)
\* "\n".join(lines)
JoinLines(lines) ==
    IF lines = <<>> THEN <<>>
    ELSE IF Len(lines) = 1 THEN lines[1]
    ELSE lines[1] \o <<"\n">> \o JoinLines(Tail(lines))

\* GeminiService._brand_to_css_variables
brand_to_css_variables(b) ==
    LET css_vars ==
            <<Declaration(<<"c", "o", "l", "o", "r", "-", "p", "r", "i", "m", "a", "r", "y">>,
                          b.colors.primary)>>
         \o (IF Truthy(b.colors.secondary)
             THEN <<Declaration(<<"c", "o", "l", "o", "r", "-", "s", "e", "c", "o", "n", "d", "a", "r", "y">>,
                                b.colors.secondary[1])>>
             ELSE <<>>)
         \o (IF Truthy(b.colors.accent)
             THEN <<Declaration(<<"c", "o", "l", "o", "r", "-", "a", "c", "c", "e", "n", "t">>,
                                b.colors.accent[1])>>
             ELSE <<>>)
         \o (IF Truthy(b.colors.background)
             THEN <<Declaration(<<"c", "o", "l", "o", "r", "-", "b", "a", "c", "k", "g", "r", "o", "u", "n", "d">>,
                                b.colors.background[1])>>
             ELSE <<>>)
         \o (IF Truthy(b.colors.text)
             THEN <<Declaration(<<"c", "o", "l", "o", "r", "-", "t", "e", "x", "t">>,
                                b.colors.text[1])>>
             ELSE <<>>)
         \o <<Declaration(<<"f", "o", "n", "t", "-", "h", "e", "a", "d", "i", "n", "g">>,
                          b.typography.headings),
              Declaration(<<"f", "o", "n", "t", "-", "b", "o", "d", "y">>,
                          b.typography.body),
              Declaration(<<"s", "p", "a", "c", "i", "n", "g", "-", "g", "r", "i", "d">>,
                          b.spacing.grid)>>
         \o (IF b.buttons.primary # None
             THEN <<Declaration(<<"b", "t", "n", "-", "p", "r", "i", "m", "a", "r", "y", "-", "b", "g">>,
                                b.buttons.primary[1].bg),
                    Declaration(<<"b", "t", "n", "-", "p", "r", "i", "m", "a", "r", "y", "-", "t", "e", "x", "t">>,
                                b.buttons.primary[1].text),
                    Declaration(<<"b", "t", "n", "-", "p", "r", "i", "m", "a", "r", "y", "-", "r", "a", "d", "i", "u", "s">>,
                                b.buttons.primary[1].border_radius)>>
             ELSE <<>>)
    IN  JoinLines(css_vars)

\* Mutant of FullCss: the parsed css is put in front of the :root block.
FullCssBodyFirst(css_variables, css) ==
    css \o <<"\n", "\n">> \o <<":", "r", "o", "o", "t", " ", "{", "\n">>
        \o css_variables \o <<"\n", "}">>

\* full_css of generate_replica (gemini.py 132-137)
FullCss(css_variables, css) ==
    <<":", "r", "o", "o", "t", " ", "{", "\n">> \o css_variables
        \o <<"\n", "}", "\n", "\n">> \o css

\* What generate_replica returns for brand record b once the model has
\* answered with text t (gemini.py 108-159; the preview data URI is left out).
generate_replica(b, component_type, t) ==
    GeneratedCode(ParseHtml(t),
                  FullCss(brand_to_css_variables(b), ParseCss(t)),
                  component_type)

(***************************************************************************)
(* FirecrawlService.extract_brand: the upstream payload and the            *)
(* normalizer.  A JSON value is a dict (a record; the empty dict is <<>>), *)
(* JNull, JStr(s), JInt(n) or JList(l).                                    *)
(***************************************************************************)
JNull == [null |-> TRUE]
JStr(s) == [str |-> s]
JInt(n) == [int |-> n]
JList(l) == [list |-> l]

IsDict(v) == DOMAIN v \cap {"null", "str", "int", "list"} = {}
IsStr(v) == "str" \in DOMAIN v
IsInt(v) == "int" \in DOMAIN v
IsList(v) == "list" \in DOMAIN v

\* d.get(key, default)
Get(d, key, default) == IF key \in DOMAIN d THEN d[key] ELSE default

\* bool(v) of a JSON value
TruthyJson(v) ==
    IF v = JNull THEN FALSE
    ELSE IF IsStr(v) THEN v.str # <<>>
    ELSE IF IsInt(v) THEN v.int # 0
    ELSE IF IsList(v) THEN v.list # <<>>
    ELSE DOMAIN v # {}

\* What pydantic accepts for a field of type str, Optional[str], list[str]
\* and list[int].
ValidStr(v) == IsStr(v)
ValidOptStr(v) == v = JNull \/ IsStr(v)
ValidStrList(v) == IsList(v) /\ \A i \in 1..Len(v.list) : IsStr(v.list[i])

\* What pydantic makes of a str given where an int is declared (an item of
\* weights: list[int]; the models are validated in lax mode): the int the
\* string is read as, or the parsing error.  The string is trimmed and read
\* as an optional minus sign and decimal digits without a leading zero; a
\* string that is not of this form is cleaned and read again: a plus sign is
\* dropped, a minus sign set aside, leading zeros (a minus sign may follow
\* them), a decimal point followed by one or more zeros and nothing else,
\* and single underscores between characters are dropped.  A minus sign
\* that followed leading zeros is not set aside, so the digits behind it
\* keep their leading zero and are not read ("0-1" is -1, "0-01" an error).
str_as_int(str) ==
    LET IntParsing == [ok |-> FALSE, error |-> "int_parsing"]
        \* DecDigits[k] is the digit of value k - 1
        DecDigits == <<"0", "1", "2", "3", "4", "5", "6", "7", "8", "9">>
        \* the characters trimmed: White_Space, without U+001C..U+001F
        Space == {"\t", "\n", "", "\f", "\r", " ", "", " "}
        Digits == {DecDigits[k] : k \in DOMAIN DecDigits}
        Value(c) == (CHOOSE k \in DOMAIN DecDigits : DecDigits[k] = c) - 1
        Min(S) == CHOOSE i \in S : \A j \in S : i <= j
        Max(S) == CHOOSE i \in S : \A j \in S : j <= i
        trim(s) ==
            LET keep == {i \in DOMAIN s : s[i] \notin Space}
            IN  IF keep = {} THEN <<>> ELSE SubSeq(s, Min(keep), Max(keep))
        \* an optional minus sign, then decimal digits with no leading zero
        \* ("0" itself is read), and nothing else
        parse(s) ==
            LET signed == s # <<>> /\ s[1] = "-"
                digits == IF signed THEN Tail(s) ELSE s
                val[i \in 0..Len(digits)] ==
                    IF i = 0 THEN 0 ELSE 10 * val[i - 1] + Value(digits[i])
            IN  IF \/ digits = <<>>
                   \/ \E i \in DOMAIN digits : digits[i] \notin Digits
                   \/ Len(digits) > 1 /\ digits[1] = "0"
                THEN IntParsing
                ELSE [ok |-> TRUE,
                      value |-> IF signed THEN 0 - val[Len(digits)]
                                ELSE val[Len(digits)]]
        strip_leading_zeros(s) ==
            IF s = <<>> THEN None
            ELSE IF s[1] \in Digits \ {"0"} THEN Some(s)
            ELSE IF s[1] # "0" THEN None
            ELSE LET rest == {i \in 2..Len(s) : s[i] \notin {"0", "_"}}
                 IN  IF rest = {} THEN Some(<<s[Len(s)]>>)
                     ELSE IF s[Min(rest)] \in Digits \cup {"-"}
                          THEN Some(SubSeq(s, Min(rest), Len(s)))
                     ELSE IF s[Min(rest)] = "." THEN Some(SubSeq(s, Min(rest) - 1, Len(s)))
                     ELSE None
        strip_decimal_zeros(s) ==
            LET dots == {i \in DOMAIN s : s[i] = "."}
            IN  IF /\ dots # {} /\ Min(dots) < Len(s)
                   /\ \A j \in (Min(dots) + 1)..Len(s) : s[j] = "0"
                THEN SubSeq(s, 1, Min(dots) - 1) ELSE s
        strip_underscores(s) ==
            IF \/ \A i \in DOMAIN s : s[i] # "_"
               \/ s[1] = "_" \/ s[Len(s)] = "_"
               \/ \E i \in 1..(Len(s) - 1) : s[i] = "_" /\ s[i + 1] = "_"
            THEN None
            ELSE Some(SelectSeq(s, LAMBDA c : c # "_"))
        clean_int_str(s) ==
            LET plus == s # <<>> /\ s[1] = "+"
                s1 == IF plus THEN Tail(s) ELSE s
                is_negative == s1 # <<>> /\ s1[1] = "-"
                s2 == IF is_negative THEN Tail(s1) ELSE s1
                sign == IF is_negative THEN <<"-">> ELSE <<>>
                s3 == strip_leading_zeros(s2)
            IN  IF plus /\ is_negative THEN None
                ELSE IF is_negative /\ s2 # <<>> /\ s2[1] \in {"+", "-"} THEN None
                ELSE IF s3 = None THEN None
                ELSE LET s4 == strip_decimal_zeros(s3[1])
                         stripped == strip_underscores(s4)
                     IN  IF stripped # None THEN Some(sign \o stripped[1])
                         ELSE IF Len(s4) = Len(s) THEN None
                         ELSE Some(sign \o s4)
        trimmed == trim(str)
        cleaned == clean_int_str(trimmed)
    IN  IF parse(trimmed).ok THEN parse(trimmed)
        ELSE IF cleaned = None THEN IntParsing
        ELSE parse(cleaned[1])

\* An item of a list[int] field is an int or a str that reads as one.
ValidIntList(v) ==
    /\ IsList(v)
    /\ \A i \in 1..Len(v.list) :
          \/ IsInt(v.list[i])
          \/ IsStr(v.list[i]) /\ str_as_int(v.list[i].str).ok

\* The typed value of a validated field.
OptStr(v) == IF v = JNull THEN None ELSE Some(v.str)
StrList(v) == [i \in 1..Len(v.list) |-> v.list[i].str]
IntList(v) ==
    [i \in 1..Len(v.list) |->
        IF IsInt(v.list[i]) THEN v.list[i].int ELSE str_as_int(v.list[i].str).value]

AttributeError == [ok |-> FALSE, error |-> "AttributeError"]
ValidationError == [ok |-> FALSE, error |-> "ValidationError"]
Returned(v) == [ok |-> TRUE, value |-> v]

\* The defaults of extract_brand's .get calls.
DefaultPrimaryWhite == <<"#", "f", "f", "f", "f", "f", "f">>
DefaultPrimary == <<"#", "0", "0", "0", "0", "0", "0">>
DefaultFont == <<"s", "a", "n", "s", "-", "s", "e", "r", "i", "f">>
DefaultButtonText == <<"#", "f", "f", "f", "f", "f", "f">>

\* Mutant of PrimaryButton: the payload's border_radius is not read, the
\* button always gets the default radius.
PrimaryButtonDefaultRadius(buttons_data, primary) ==
    LET btn == Get(buttons_data, "primary", JNull)
    IN  IF ~TruthyJson(btn) THEN Returned(None)
        ELSE IF ~IsDict(btn) THEN AttributeError
        ELSE LET bg == Get(btn, "bg", JStr(primary))
                 text_ == Get(btn, "text", JStr(DefaultButtonText))
                 padding == Get(btn, "padding", JStr(DefaultPadding))
             IN  IF ValidStr(bg) /\ ValidStr(text_) /\ ValidStr(padding)
                 THEN Returned(Some(ButtonStyle(bg.str, text_.str, DefaultBorderRadius,
                                                padding.str)))
                 ELSE ValidationError

\* buttons.primary of extract_brand (firecrawl.py 165-174) for the dict
\* buttons_data and the record's primary colour: Returned(None) when
\* buttons_data has no truthy "primary", else the ButtonStyle or the error.
PrimaryButton(buttons_data, primary) ==
    LET btn == Get(buttons_data, "primary", JNull)
    IN  IF ~TruthyJson(btn) THEN Returned(None)
        ELSE IF ~IsDict(btn) THEN AttributeError
        ELSE LET bg == Get(btn, "bg", JStr(primary))
                 text_ == Get(btn, "text", JStr(DefaultButtonText))
                 border_radius == Get(btn, "border_radius", JStr(DefaultBorderRadius))
                 padding == Get(btn, "padding", JStr(DefaultPadding))
             IN  IF ValidStr(bg) /\ ValidStr(text_) /\ ValidStr(border_radius)
                        /\ ValidStr(padding)
                 THEN Returned(Some(ButtonStyle(bg.str, text_.str, border_radius.str,
                                                padding.str)))
                 ELSE ValidationError

\* The normalizer: firecrawl.py 145-185, from the extracted mapping, the
\* source url and the screenshot references (JSON values) to a BrandData
\* record, or the exception raised on the way.
Normalize(extracted, url, screenshots) ==
    IF ~IsDict(extracted) THEN AttributeError
    ELSE LET colors_data == Get(extracted, "colors", <<>>)
    IN  IF ~IsDict(colors_data) THEN AttributeError
    ELSE LET primary == Get(colors_data, "primary", JStr(DefaultPrimary))
             secondary == Get(colors_data, "secondary", JNull)
             accent == Get(colors_data, "accent", JNull)
             background == Get(colors_data, "background", JNull)
             text_ == Get(colors_data, "text", JNull)
             palette == Get(colors_data, "palette", JList(<<>>))
    IN  IF ~(ValidStr(primary) /\ ValidOptStr(secondary) /\ ValidOptStr(accent)
              /\ ValidOptStr(background) /\ ValidOptStr(text_) /\ ValidStrList(palette))
        THEN ValidationError
    ELSE LET colors == BrandColors(primary.str, OptStr(secondary), OptStr(accent),
                                   OptStr(background), OptStr(text_), StrList(palette))
             typo_data == Get(extracted, "typography", <<>>)
    IN  IF ~IsDict(typo_data) THEN AttributeError
    ELSE LET headings == Get(typo_data, "headings", JStr(DefaultFont))
             body == Get(typo_data, "body", JStr(DefaultFont))
             weights == Get(typo_data, "weights",
                            JList(<<JInt(400), JInt(600), JInt(700)>>))
    IN  IF ~(ValidStr(headings) /\ ValidStr(body) /\ ValidIntList(weights))
        THEN ValidationError
    ELSE LET typography == BrandTypography(headings.str, body.str, IntList(weights))
             buttons_data == Get(extracted, "buttons", <<>>)
    IN  IF ~IsDict(buttons_data) THEN AttributeError
    ELSE LET button == PrimaryButton(buttons_data, colors.primary)
    IN  IF ~button.ok THEN button
    ELSE LET logo_url == Get(extracted, "logo_url", JNull)
             favicon_url == Get(extracted, "favicon_url", JNull)
    IN  IF ~(ValidOptStr(logo_url) /\ ValidOptStr(favicon_url)
              /\ ValidStrList(JList(screenshots)))
        THEN ValidationError
        ELSE Returned(BrandData(url, colors, typography, BrandSpacing,
                                [BrandButtons EXCEPT !.primary = button.value],
                                OptStr(logo_url), OptStr(favicon_url),
                                StrList(JList(screenshots))))

\* extract_brand after the response has arrived (firecrawl.py 136-185): data
\* is the response's JSON body.  data.get and data.get(...).get raise an
\* AttributeError on a value that is not a dict.
extract_brand(data, url, include) ==
    IF ~IsDict(data) THEN AttributeError
    ELSE
    LET inner == Get(data, "data", <<>>)
    IN  IF ~IsDict(inner) THEN AttributeError
        ELSE LET extracted == Get(inner, "extract", <<>>)
                 screenshots == IF include /\ "screenshot" \in DOMAIN inner
                                THEN <<inner.screenshot>> ELSE <<>>
             IN  Normalize(extracted, url, screenshots)

\* An Optional[str] as JSON
DumpOptStr(o) == IF o = None THEN JNull ELSE JStr(o[1])
\* A list[str] as JSON
DumpStrList(l) == JList([i \in 1..Len(l) |-> JStr(l[i])])
\* A dict[str, str] as JSON
DumpStrDict(d) == [k \in DOMAIN d |-> JStr(d[k])]

\* ButtonStyle.model_dump() of an Optional[ButtonStyle]
DumpButton(o) ==
    IF o = None THEN JNull
    ELSE [bg |-> JStr(o[1].bg), text |-> JStr(o[1].text),
          border_radius |-> JStr(o[1].border_radius), padding |-> JStr(o[1].padding),
          border |-> DumpOptStr(o[1].border), hover_bg |-> DumpOptStr(o[1].hover_bg)]

\* BrandData.model_dump(): the record as a plain mapping (tools.py 32)
model_dump(r) ==
    [url |-> JStr(r.url),
     colors |-> [primary |-> JStr(r.colors.primary),
                 secondary |-> DumpOptStr(r.colors.secondary),
                 accent |-> DumpOptStr(r.colors.accent),
                 background |-> DumpOptStr(r.colors.background),
                 text |-> DumpOptStr(r.colors.text),
                 palette |-> DumpStrList(r.colors.palette)],
     typography |-> [headings |-> JStr(r.typography.headings),
                     body |-> JStr(r.typography.body),
                     weights |-> JList([i \in 1..Len(r.typography.weights) |->
                                           JInt(r.typography.weights[i])]),
                     base_size |-> DumpOptStr(r.typography.base_size),
                     line_height |-> DumpOptStr(r.typography.line_height)],
     spacing |-> [grid |-> JStr(r.spacing.grid),
                  margins |-> DumpStrDict(r.spacing.margins),
                  padding |-> DumpStrDict(r.spacing.padding),
                  gap |-> DumpOptStr(r.spacing.gap)],
     buttons |-> [primary |-> DumpButton(r.buttons.primary),
                  secondary |-> DumpButton(r.buttons.secondary),
                  outline |-> DumpButton(r.buttons.outline)],
     logo_url |-> DumpOptStr(r.logo_url),
     favicon_url |-> DumpOptStr(r.favicon_url),
     screenshots |-> DumpStrList(r.screenshots)]

\* BrandData.model_validate(brand_data) (tools.py 54): the typed record for a
\* plain mapping, or the ValidationError for a mapping that lacks a required
\* field (url, colors.primary, typography.headings and body, a button's bg
\* and text) or holds a value of another type.
model_validate(d) ==
    LET Has(m, k) == k \in DOMAIN m
        Section(k) == IF Has(d, k) THEN d[k] ELSE <<>>
        ValidStrDict(v) == IsDict(v) /\ \A k \in DOMAIN v : IsStr(v[k])
        StrDict(v) == IF DOMAIN v = {} THEN EmptyDict ELSE [k \in DOMAIN v |-> v[k].str]
        ValidButton(v) ==
            \/ v = JNull
            \/ /\ IsDict(v)
               /\ Has(v, "bg") /\ Has(v, "text")
               /\ ValidStr(v.bg) /\ ValidStr(v.text)
               /\ ValidStr(Get(v, "border_radius", JStr(DefaultBorderRadius)))
               /\ ValidStr(Get(v, "padding", JStr(DefaultPadding)))
               /\ ValidOptStr(Get(v, "border", JNull))
               /\ ValidOptStr(Get(v, "hover_bg", JNull))
        Button(v) ==
            IF v = JNull THEN None
            ELSE Some([ButtonStyle(v.bg.str, v.text.str,
                                   Get(v, "border_radius", JStr(DefaultBorderRadius)).str,
                                   Get(v, "padding", JStr(DefaultPadding)).str)
                          EXCEPT !.border = OptStr(Get(v, "border", JNull)),
                                 !.hover_bg = OptStr(Get(v, "hover_bg", JNull))])
        c == Section("colors")
        t == Section("typography")
        sp == Section("spacing")
        bt == Section("buttons")
        weights == Get(t, "weights", JList(<<JInt(400), JInt(600), JInt(700)>>))
        valid ==
            /\ Has(d, "url") /\ ValidStr(d.url)
            /\ Has(d, "colors") /\ IsDict(c)
            /\ Has(c, "primary") /\ ValidStr(c.primary)
            /\ \A k \in {"secondary", "accent", "background", "text"} :
                  ValidOptStr(Get(c, k, JNull))
            /\ ValidStrList(Get(c, "palette", JList(<<>>)))
            /\ Has(d, "typography") /\ IsDict(t)
            /\ Has(t, "headings") /\ ValidStr(t.headings)
            /\ Has(t, "body") /\ ValidStr(t.body)
            /\ ValidIntList(weights)
            /\ ValidOptStr(Get(t, "base_size", JStr(DefaultBaseSize)))
            /\ ValidOptStr(Get(t, "line_height", JStr(DefaultLineHeight)))
            /\ IsDict(sp)
            /\ ValidStr(Get(sp, "grid", JStr(DefaultGrid)))
            /\ ValidStrDict(Get(sp, "margins", <<>>))
            /\ ValidStrDict(Get(sp, "padding", <<>>))
            /\ ValidOptStr(Get(sp, "gap", JNull))
            /\ IsDict(bt)
            /\ \A k \in {"primary", "secondary", "outline"} : ValidButton(Get(bt, k, JNull))
            /\ ValidOptStr(Get(d, "logo_url", JNull))
            /\ ValidOptStr(Get(d, "favicon_url", JNull))
            /\ ValidStrList(Get(d, "screenshots", JList(<<>>)))
    IN  IF ~IsDict(d) \/ ~valid THEN ValidationError
        ELSE Returned(
            BrandData(d.url.str,
                      BrandColors(c.primary.str, OptStr(Get(c, "secondary", JNull)),
                                  OptStr(Get(c, "accent", JNull)),
                                  OptStr(Get(c, "background", JNull)),
                                  OptStr(Get(c, "text", JNull)),
                                  StrList(Get(c, "palette", JList(<<>>)))),
                      [BrandTypography(t.headings.str, t.body.str, IntList(weights))
                          EXCEPT !.base_size = OptStr(Get(t, "base_size", JStr(DefaultBaseSize))),
                                 !.line_height = OptStr(Get(t, "line_height", JStr(DefaultLineHeight)))],
                      [grid |-> Get(sp, "grid", JStr(DefaultGrid)).str,
                       margins |-> StrDict(Get(sp, "margins", <<>>)),
                       padding |-> StrDict(Get(sp, "padding", <<>>)),
                       gap |-> OptStr(Get(sp, "gap", JNull))],
                      [primary |-> Button(Get(bt, "primary", JNull)),
                       secondary |-> Button(Get(bt, "secondary", JNull)),
                       outline |-> Button(Get(bt, "outline", JNull))],
                      OptStr(Get(d, "logo_url", JNull)),
                      OptStr(Get(d, "favicon_url", JNull)),
                      StrList(Get(d, "screenshots", JList(<<>>)))))

(***************************************************************************)
(* GeminiService.calculate_color_similarity.                               *)
(***************************************************************************)
HexDigits ==
    {"0", "1", "2", "3", "4", "5", "6", "7", "8", "9",
     "a", "b", "c", "d", "e", "f", "A", "B", "C", "D", "E", "F"}

\* The value of one hexadecimal digit.
HexDigitValue(c) ==
    CASE c = "0" -> 0 [] c = "1" -> 1 [] c = "2" -> 2 [] c = "3" -> 3
      [] c = "4" -> 4 [] c = "5" -> 5 [] c = "6" -> 6 [] c = "7" -> 7
      [] c = "8" -> 8 [] c = "9" -> 9
      [] c \in {"a", "A"} -> 10 [] c \in {"b", "B"} -> 11
      [] c \in {"c", "C"} -> 12 [] c \in {"d", "D"} -> 13
      [] c \in {"e", "E"} -> 14 [] c \in {"f", "F"} -> 15

\* A ValueError
ValueError == [ok |-> FALSE, error |-> "ValueError"]
Parsed(v) == [ok |-> TRUE, value |-> v]

\* int(s, 16) for a string s of at most two characters (a slice
\* hex_color[i:i+2]): surrounding whitespace is dropped, one sign is read,
\* what is left has to be hexadecimal digits; anything else is a ValueError.
\* The whitespace int() drops is that of str.strip() without U+001C..U+001F.
Int16(s) ==
    LET Space == {"\t", "\n", "", "\f", "\r", " ", "", " "}
    IN
    IF Len(s) = 1 /\ s[1] \in HexDigits THEN Parsed(HexDigitValue(s[1]))
    ELSE IF Len(s) = 2 /\ s[1] \in HexDigits /\ s[2] \in HexDigits
         THEN Parsed(16 * HexDigitValue(s[1]) + HexDigitValue(s[2]))
    ELSE IF Len(s) = 2 /\ s[1] \in Space \cup {"+"} /\ s[2] \in HexDigits
         THEN Parsed(HexDigitValue(s[2]))
    ELSE IF Len(s) = 2 /\ s[1] \in HexDigits /\ s[2] \in Space
         THEN Parsed(HexDigitValue(s[1]))
    ELSE IF Len(s) = 2 /\ s[1] = "-" /\ s[2] \in HexDigits
         THEN Parsed(0 - HexDigitValue(s[2]))
    ELSE ValueError

RECURSIVE lstrip_hash(_)
\* hex_color.lstrip("#")
lstrip_hash(s) ==
    IF s # <<>> /\ Head(s) = "#" THEN lstrip_hash(Tail(s)) ELSE s

\* s[i:i+2] with Python's 0-based i: a slice is cut at the end of s.
Slice2(s, i) ==
    SubSeq(s, i + 1, IF i + 2 <= Len(s) THEN i + 2 ELSE Len(s))

\* hex_to_rgb (gemini.py 200-202): the three channels, or a ValueError.
hex_to_rgb(hex_color) ==
    LET h == lstrip_hash(hex_color)
        r == Int16(Slice2(h, 0))
        g == Int16(Slice2(h, 2))
        b == Int16(Slice2(h, 4))
    IN  IF r.ok /\ g.ok /\ b.ok
        THEN Parsed(<<r.value, g.value, b.value>>)
        ELSE ValueError

\* sum((a - b) ** 2 for a, b in zip(rgb1, rgb2))
SquaredDistance(rgb1, rgb2) ==
    (rgb1[1] - rgb2[1]) * (rgb1[1] - rgb2[1])
  + (rgb1[2] - rgb2[2]) * (rgb1[2] - rgb2[2])
  + (rgb1[3] - rgb2[3]) * (rgb1[3] - rgb2[3])

\* max_distance ** 2 = 255 ** 2 * 3 = 25 * MaxSquaredOver25
MaxSquaredOver25 == 7803

\* floor(4 * 10^6 * d2 / (255^2 * 3)) = floor(160000 * d2 / 7803), computed
\* in two parts so that no product leaves the 32-bit integers.
ScaledRatio(d2) ==
    160000 * (d2 \div MaxSquaredOver25)
        + (160000 * (d2 % MaxSquaredOver25)) \div MaxSquaredOver25

RECURSIVE ISqrtBetween(_, _, _)
\* The integer square root of n, searched in lo..hi.
ISqrtBetween(n, lo, hi) ==
    IF lo >= hi THEN lo
    ELSE LET mid == (lo + hi + 1) \div 2
         IN  IF mid * mid <= n THEN ISqrtBetween(n, mid, hi)
             ELSE ISqrtBetween(n, lo, mid - 1)

ISqrt(n) == ISqrtBetween(n, 0, 3000)

\* Mutant of RoundedSimilarity: the score is cut to 3 decimals, not rounded.
TruncatedSimilarity(d2) == 1000 - (ISqrt(ScaledRatio(d2)) \div 2)

\* round(1 - distance / max_distance, 3), in thousandths, for the squared
\* distance d2.  With x = 1000 * distance / max_distance, ScaledRatio(d2) is
\* floor(4 * x^2), so round(x) = (floor(sqrt(4 x^2)) + 1) div 2; x is never
\* half-way between two integers, and the float result equals this value for
\* every d2 two triples of channels can give.
RoundedSimilarity(d2) == 1000 - ((ISqrt(ScaledRatio(d2)) + 1) \div 2)

\* calculate_color_similarity (gemini.py 204-215), in thousandths: a
\* ValueError of hex_to_rgb is caught and gives 0.0.
calculate_color_similarity(c1, c2) ==
    LET rgb1 == hex_to_rgb(c1)
        rgb2 == hex_to_rgb(c2)
    IN  IF rgb1.ok /\ rgb2.ok
        THEN RoundedSimilarity(SquaredDistance(rgb1.value, rgb2.value))
        ELSE 0

(***************************************************************************)
(* Credentials: FirecrawlService.__init__ and GeminiService.__init__.      *)
(***************************************************************************)
\* The process environment: each variable is None or a string.
Environment(firecrawl_key, google_key) ==
    [FIRECRAWL_API_KEY |-> firecrawl_key, GOOGLE_API_KEY |-> google_key]

KeyF == <<"f", "c", "-", "k", "e", "y">>
KeyG == <<"g", "-", "k", "e", "y">>

\* An environment with both keys.
KeysSet == Environment(Some(KeyF), Some(KeyG))

\* ValueError(f"{name} is required")
RequiredError(name) ==
    [ok |-> FALSE, error |-> "ValueError",
     message |-> name \o <<" ", "i", "s", " ", "r", "e", "q", "u", "i", "r", "e", "d">>]

NameFirecrawlKey ==
    <<"F", "I", "R", "E", "C", "R", "A", "W", "L", "_", "A", "P", "I", "_", "K", "E", "Y">>
NameGoogleKey ==
    <<"G", "O", "O", "G", "L", "E", "_", "A", "P", "I", "_", "K", "E", "Y">>

\* Mutant of ResolveKey: the environment wins over a supplied key.
ResolveKeyEnvFirst(api_key, env_value) ==
    IF Truthy(env_value) THEN env_value ELSE api_key

\* api_key or os.getenv(NAME): the supplied key when it is truthy, else the
\* environment's value (None when the variable is not set).
ResolveKey(api_key, env_value) ==
    IF Truthy(api_key) THEN api_key ELSE env_value

\* FirecrawlService.__init__ (firecrawl.py 23-40): the service with its key
\* and an open HTTP client, or the ValueError raised before the client is made.
FirecrawlService(api_key, e) ==
    LET key == ResolveKey(api_key, e.FIRECRAWL_API_KEY)
    IN  IF ~Truthy(key) THEN RequiredError(NameFirecrawlKey)
        ELSE Returned([api_key |-> key[1], client |-> "open"])

\* GeminiService.__init__ (gemini.py 15-26): the service with its key and
\* model handle, or the ValueError raised before genai is configured.
GeminiService(api_key, e) ==
    LET key == ResolveKey(api_key, e.GOOGLE_API_KEY)
    IN  IF ~Truthy(key) THEN RequiredError(NameGoogleKey)
        ELSE Returned([api_key |-> key[1], model |-> "gemini-2.0-flash-lite"])

(***************************************************************************)
(* tools.compare_brands: the comparator.                                   *)
(***************************************************************************)
\* The characters of U+0000..U+00FF that str.lower() changes (A-Z and the
\* capitals U+00C0..U+00DE without the multiplication sign), and what it
\* makes of each.
UpperLetters ==
    <<"A", "B", "C", "D", "E", "F", "G", "H", "I", "J", "K", "L", "M",
      "N", "O", "P", "Q", "R", "S", "T", "U", "V", "W", "X", "Y", "Z",
      "À", "Á", "Â", "Ã", "Ä", "Å", "Æ", "Ç", "È", "É", "Ê", "Ë", "Ì",
      "Í", "Î", "Ï", "Ð", "Ñ", "Ò", "Ó", "Ô", "Õ", "Ö", "Ø", "Ù", "Ú",
      "Û", "Ü", "Ý", "Þ">>
LowerLetters ==
    <<"a", "b", "c", "d", "e", "f", "g", "h", "i", "j", "k", "l", "m",
      "n", "o", "p", "q", "r", "s", "t", "u", "v", "w", "x", "y", "z",
      "à", "á", "â", "ã", "ä", "å", "æ", "ç", "è", "é", "ê", "ë", "ì",
      "í", "î", "ï", "ð", "ñ", "ò", "ó", "ô", "õ", "ö", "ø", "ù", "ú",
      "û", "ü", "ý", "þ">>

\* str.lower(): every other character of the alphabet is left as it is.
lower(s) ==
    [i \in 1..Len(s) |->
        IF \E k \in DOMAIN UpperLetters : UpperLetters[k] = s[i]
        THEN LowerLetters[CHOOSE k \in DOMAIN UpperLetters : UpperLetters[k] = s[i]]
        ELSE s[i]]

\* response.raise_for_status() of extract_brand (firecrawl.py 134-136): every
\* reply whose status is not 2xx raises, a 2xx reply is normalized.
HTTPStatusError == [ok |-> FALSE, error |-> "HTTPStatusError"]
extract_brand_from(reply, url, include) ==
    IF ~(200 <= reply.status /\ reply.status <= 299) THEN HTTPStatusError
    ELSE extract_brand(reply.body, url, include)

\* Mutant of typography_match: both fonts have to match.
typography_match_both(b1, b2) ==
    /\ lower(b1.typography.headings) = lower(b2.typography.headings)
    /\ lower(b1.typography.body) = lower(b2.typography.body)

\* typography_match of compare_brands (tools.py 124-128)
typography_match(b1, b2) ==
    \/ lower(b1.typography.headings) = lower(b2.typography.headings)
    \/ lower(b1.typography.body) = lower(b2.typography.body)

\* Mutant of fonts: the names are taken as written, not in lower case.
fonts_as_written(b) == {b.typography.headings, b.typography.body}

\* fonts1 & fonts2 (tools.py 130-133), as a set
fonts(b) == {lower(b.typography.headings), lower(b.typography.body)}
font_overlap(b1, b2) == fonts(b1) \cap fonts(b2)

\* list(a set): the elements in any order.
Orderings(S) ==
    { l \in [1..Cardinality(S) -> S] : \A i, j \in 1..Cardinality(S) : l[i] = l[j] => i = j }

\* Mutant of differences: the fonts are compared as written.
differences_as_written(b1, b2) ==
    LET vs == <<" ", "v", "s", " ">>
    IN  (IF b1.colors.primary # b2.colors.primary
         THEN << Concat(<< <<"P", "r", "i", "m", "a", "r", "y", " ", "c", "o", "l", "o", "r", ":", " ">>,
                           b1.colors.primary, vs, b2.colors.primary >>) >>
         ELSE <<>>)
        \o
        (IF b1.typography.headings # b2.typography.headings
         THEN << Concat(<< <<"H", "e", "a", "d", "i", "n", "g", " ", "f", "o", "n", "t", ":", " ">>,
                           b1.typography.headings, vs, b2.typography.headings >>) >>
         ELSE <<>>)
        \o
        (IF b1.typography.body # b2.typography.body
         THEN << Concat(<< <<"B", "o", "d", "y", " ", "f", "o", "n", "t", ":", " ">>,
                           b1.typography.body, vs, b2.typography.body >>) >>
         ELSE <<>>)

\* differences of compare_brands (tools.py 135-142)
differences(b1, b2) ==
    LET vs == <<" ", "v", "s", " ">>
    IN  (IF b1.colors.primary # b2.colors.primary
         THEN << Concat(<< <<"P", "r", "i", "m", "a", "r", "y", " ", "c", "o", "l", "o", "r", ":", " ">>,
                           b1.colors.primary, vs, b2.colors.primary >>) >>
         ELSE <<>>)
        \o
        (IF lower(b1.typography.headings) # lower(b2.typography.headings)
         THEN << Concat(<< <<"H", "e", "a", "d", "i", "n", "g", " ", "f", "o", "n", "t", ":", " ">>,
                           b1.typography.headings, vs, b2.typography.headings >>) >>
         ELSE <<>>)
        \o
        (IF lower(b1.typography.body) # lower(b2.typography.body)
         THEN << Concat(<< <<"B", "o", "d", "y", " ", "f", "o", "n", "t", ":", " ">>,
                           b1.typography.body, vs, b2.typography.body >>) >>
         ELSE <<>>)

\* ComparisonMetrics (schemas/brand.py 78-84): color_similarity is validated
\* against ge=0 and le=1 (thousandths here).
ComparisonMetrics(color_similarity, typography_match_, font_overlap_, differences_) ==
    IF 0 <= color_similarity /\ color_similarity <= 1000
    THEN Returned([color_similarity |-> color_similarity,
                   typography_match |-> typography_match_,
                   font_overlap |-> font_overlap_,
                   differences |-> differences_])
    ELSE ValidationError

\* compare_brands from the similarity score to the return (tools.py 118-155);
\* overlap is the order list() gives the shared fonts.
compare_brands(b1, b2, overlap) ==
    LET metrics ==
            ComparisonMetrics(calculate_color_similarity(b1.colors.primary, b2.colors.primary),
                              typography_match(b1, b2), overlap, differences(b1, b2))
    IN  IF metrics.ok
        THEN Returned([site1 |-> model_dump(b1), site2 |-> model_dump(b2),
                       comparison |-> metrics.value])
        ELSE metrics

(***************************************************************************)
(* Inputs of the generation step.                                          *)
(***************************************************************************)
\* The pieces model responses are built from: the markers, the opening tags
\* of fenced blocks, a fence, a single grave accent (which, next to a fence
\* or a tag, makes a run of four and so fences that overlap), and content
\* with whitespace around it.
ModelChunks ==
    { MarkHTML, MarkCSS, MarkEND, FenceHTML, FenceCSS, Fence, <<Grave>>,
      <<" ", "\f", "a", "\n">> }


\* The sequences of at most n chunks; a model text is their concatenation.
ChunkSeqs(n) == UNION { [1..k -> ModelChunks] : k \in 0..n }

\* The response the prompt asks for: ---HTML--- body ---CSS--- body ---END---
CanonicalChunks ==
    <<MarkHTML, <<" ", "\f", "a", "\n">>, MarkCSS, <<" ", "\f", "a", "\n">>, MarkEND>>

ColCoral == <<"#", "F", "F", "5", "A", "5", "F">>
ColBlack == <<"#", "0", "0", "0", "0", "0", "0">>
ColWhite == <<"#", "F", "F", "F", "F", "F", "F">>
ColTeal == <<"#", "0", "0", "A", "6", "9", "9">>
ColRed == <<"#", "F", "F", "0", "0", "0", "0">>
FontArial == <<"A", "r", "i", "a", "l">>
FontArialLower == <<"a", "r", "i", "a", "l">>
FontHelvetica == <<"H", "e", "l", "v", "e", "t", "i", "c", "a">>
FontSansSerif == <<"s", "a", "n", "s", "-", "s", "e", "r", "i", "f">>
UrlA == <<"a", ".", "i", "o">>
UrlB == <<"b", ".", "i", "o">>
LandingPage == <<"l", "a", "n", "d", "i", "n", "g", "_", "p", "a", "g", "e">>

\* A record after tests/conftest.py (sample_brand_data).
SampleBrand ==
    BrandData(UrlA,
              BrandColors(ColCoral, Some(ColTeal), None, Some(ColWhite), None, <<ColCoral>>),
              BrandTypography(FontArial, FontHelvetica, <<400, 500, 700>>),
              BrandSpacing,
              [BrandButtons EXCEPT !.primary =
                  Some(ButtonStyle(ColCoral, ColWhite, DefaultGrid, DefaultPadding))],
              None, None, <<>>)

\* Brand records handed to generate_replica: the primary colour, the presence
\* of a secondary colour and the presence of a primary button vary; three
\* more records with accent and text colours, with no optional colour but
\* text, and with the empty string as secondary colour.
GenBrands ==
    { [SampleBrand EXCEPT !.colors.primary = p, !.colors.secondary = s,
                          !.buttons.primary = b] :
        p \in {ColCoral, ColBlack},
        s \in {None, Some(ColTeal)},
        b \in {None, Some(ButtonStyle(ColCoral, ColWhite, DefaultGrid, DefaultPadding))} }
    \cup
    { [SampleBrand EXCEPT !.colors.accent = Some(ColRed), !.colors.text = Some(ColBlack)],
      [SampleBrand EXCEPT !.colors.secondary = None, !.colors.background = None,
                          !.colors.text = Some(ColBlack), !.buttons.primary = None],
      [SampleBrand EXCEPT !.colors.secondary = Some(<<>>), !.colors.accent = Some(ColRed)] }

\* The pieces colour strings are built from.
ColorPieces ==
    { <<"#">>, <<"0", "0">>, <<"F", "F">>, <<"5", "A">>, <<"F">>,
      <<"-", "1">>, <<"z", "z">>, <<"\f", "1">> }

\* Colours the second argument is drawn from (or it is the first argument).
RefColors ==
    { ColBlack, ColWhite, <<"#", "F", "F", "1", "1", "1", "1">>,
      <<"8", "0", "8", "0", "8", "0">>,
      <<"n", "o", "t", "a", "c", "o", "l", "o", "r">> }

\* A key the payload omits.
Absent == [absent |-> TRUE]

\* The dict with the keys of opts whose value is not Absent.
MkDict(opts) == [k \in { k \in DOMAIN opts : opts[k] # Absent } |-> opts[k]]

ShotA == <<"a", ".", "p", "n", "g">>
LogoA == <<"l", ".", "p", "n", "g">>

\* The "colors" section of an extraction payload.
ColorsOpts ==
    {Absent, JNull} \cup
    { MkDict([primary |-> p, secondary |-> sec, palette |-> pal]) :
        p \in {Absent, JNull, JStr(ColRed)},
        sec \in {Absent, JNull, JStr(ColTeal)},
        pal \in {Absent, JList(<<JStr(ColRed)>>)} }

\* The "typography" section; the weights are ints, or hold a numeric string,
\* a string that reads as an int after cleaning ("0-1" is -1) or a string
\* that does not read as an int ("0-01").
TypographyOpts ==
    {Absent} \cup
    { MkDict([headings |-> h, body |-> b, weights |-> w]) :
        h \in {Absent, JNull, JStr(FontArial)},
        b \in {Absent, JStr(FontHelvetica)},
        w \in {Absent, JList(<<JInt(400), JInt(500)>>),
               JList(<<JStr(<<"4", "0", "0">>), JInt(600)>>),
               JList(<<JStr(<<"0", "-", "1">>)>>),
               JList(<<JStr(<<"0", "-", "0", "1">>)>>)} }

\* The "buttons" section: absent, without "primary", or with a primary that
\* is null or an object with any of bg, text and border_radius (or none).
ButtonsOpts ==
    {Absent, [primary |-> JNull]} \cup
    { MkDict([primary |-> MkDict([bg |-> bg, text |-> tx, border_radius |-> br])]) :
        bg \in {Absent, JStr(ColCoral)},
        tx \in {Absent, JStr(ColWhite)},
        br \in {Absent, JStr(DefaultGrid)} }

\* The JSON bodies the extraction service answers with: objects, and two
\* bodies that are not an object (null and a list).
Responses ==
    { <<>>, JNull, JList(<<>>), [data |-> JNull], [data |-> <<>>] } \cup
    { [data |-> MkDict([extract |-> MkDict([colors |-> c, typography |-> t,
                                            buttons |-> b, logo_url |-> l]),
                        screenshot |-> sh])] :
        c \in ColorsOpts, t \in TypographyOpts, b \in ButtonsOpts,
        l \in {Absent, JStr(LogoA)}, sh \in {Absent, JStr(ShotA)} }

\* Records a caller holds without having them from extract_brand (built like
\* the fixtures of tests/conftest.py and tests/test_services.py).
GivenBrands ==
    { SampleBrand,
      [SampleBrand EXCEPT !.spacing.margins = [sm |-> DefaultGrid, md |-> DefaultBaseSize]],
      [SampleBrand EXCEPT !.spacing.gap = Some(DefaultGrid)],
      [SampleBrand EXCEPT !.typography.base_size = None],
      [SampleBrand EXCEPT !.typography.line_height = Some(<<"2">>)],
      [SampleBrand EXCEPT !.buttons.secondary =
          Some(ButtonStyle(ColWhite, ColBlack, DefaultBorderRadius, DefaultPadding))],
      [SampleBrand EXCEPT !.buttons.primary =
          Some([ButtonStyle(ColCoral, ColWhite, DefaultGrid, DefaultPadding)
                   EXCEPT !.hover_bg = Some(ColRed)])],
      [SampleBrand EXCEPT !.screenshots = <<ShotA, <<"b", ".", "p", "n", "g">>>>],
      [SampleBrand EXCEPT !.screenshots = <<ShotA>>, !.logo_url = Some(LogoA)],
      BrandData(UrlB, BrandColors(ColRed, None, None, None, None, <<>>),
                BrandTypography(FontArial, FontHelvetica, DefaultWeights),
                BrandSpacing, BrandButtons, None, None, <<>>) }

\* A primary colour whose two-character slices int(x, 16) reads as signed.
SignedColor == <<"-", "1", "-", "1", "-", "1">>

\* The replies of the extraction service to compare_brands.
CompareReplies ==
    { [status |-> 500, body |-> <<>>],
      [status |-> 302, body |-> <<>>],
      [status |-> 200,
       body |-> [data |-> [extract |->
                   [typography |-> [headings |-> JStr(<<"É", "c", "o", "l", "e">>), body |-> JStr(FontArial)]]]]],
      [status |-> 200,
       body |-> [data |-> [extract |->
                   [typography |-> [headings |-> JStr(<<"é", "c", "o", "l", "e">>),
                                    body |-> JStr(FontHelvetica)]]]]],
      [status |-> 200,
       body |-> [data |-> [extract |->
                   [colors |-> [primary |-> JStr(ColWhite), secondary |-> JStr(ColTeal)],
                    typography |-> [headings |-> JStr(FontArialLower), body |-> JStr(FontArial),
                                    weights |-> JList(<<JInt(400), JInt(500)>>)],
                    logo_url |-> JStr(LogoA)]]]] } \cup
    { [status |-> 200,
       body |-> [data |-> [extract |->
                   [colors |-> MkDict([primary |-> p]),
                    typography |-> MkDict([headings |-> h, body |-> b])]]]] :
        p \in {Absent, JNull, JStr(ColRed), JStr(ColWhite), JStr(SignedColor), 
              JStr(<<"n", "o", "t", "a", "c", "o", "l", "o", "r">>)},
        h \in {Absent, JStr(FontArial), JStr(FontArialLower), JStr(FontHelvetica)},
        b \in {Absent, JStr(FontHelvetica), JStr(FontArial)} }

\* The values a key can have, supplied or in the environment: not there, the
\* empty string, or a key.
KeyValues == {None, Some(<<>>), Some(KeyF), Some(KeyG), Some(<<"x", "-", "k", "e", "y">>)}

\* The environments a process can start in.
Environments == { Environment(f, g) : f \in KeyValues, g \in KeyValues }

\* The replies of the extraction service to the tools: an error status, a
\* redirect, a body that is not an object, a full payload, an empty payload,
\* a payload whose primary colour is null and one whose primary colour reads
\* as negative channels.
ToolReplies ==
    { [status |-> 500, body |-> <<>>],
      [status |-> 302, body |-> <<>>],
      [status |-> 200, body |-> JNull],
      [status |-> 200, body |-> [data |-> [extract |->
          [colors |-> [primary |-> JStr(ColWhite)],
           typography |-> [headings |-> JStr(FontArial), body |-> JStr(FontHelvetica)]],
          screenshot |-> JStr(ShotA)]]],
      [status |-> 200, body |-> [data |-> [extract |-> <<>>]]],
      [status |-> 200, body |-> [data |-> [extract |-> [colors |-> [primary |-> JNull]]]]],
      [status |-> 200, body |-> [data |-> [extract |-> [colors |-> [primary |-> JStr(SignedColor)]]]]] }

\* The answers of the generative model: a failed request, or a text.
GenerateReplies ==
    { [error |-> "GoogleAPIError"],
      [text |-> Concat(CanonicalChunks)],
      [text |-> <<"a">>] }

\* The arguments a caller passes to a tool.
ToolArgs(t) ==
    IF t = "extract_brand"
    THEN { [url |-> UrlA, include_screenshots |-> i] : i \in BOOLEAN }
    ELSE IF t = "generate_replica"
    THEN { [brand_data |-> d, component_type |-> LandingPage] :
             d \in { model_dump(SampleBrand), <<>>,
                     [model_dump(SampleBrand) EXCEPT !.colors.primary = JNull],
                     [url |-> JStr(UrlA), colors |-> [primary |-> JStr(ColRed)],
                      typography |-> [headings |-> JStr(FontArial),
                                      body |-> JStr(FontArial)]] } }
    ELSE IF t = "replicate_website"
    THEN { [url |-> UrlA, component_type |-> LandingPage] }
    ELSE IF t = "compare_brands"
    THEN { [url1 |-> UrlA, url2 |-> UrlB] }
    ELSE { [url |-> UrlA, template_type |-> <<"c", "t", "a">>] }

(***************************************************************************)
(* State machine.  pc names the step an invocation is at.                  *)
(***************************************************************************)
Idle ==
    /\ brand_data = None /\ text = None /\ generated = None
    /\ color1 = None /\ color2 = None /\ similarity = None
    /\ response = None /\ include_screenshots = FALSE /\ brand = None
    /\ dumped = None /\ renormalized = None
    /\ brand1 = None /\ brand2 = None /\ client_open = FALSE
    /\ comparison = None
    /\ tool = None /\ arg = None /\ gemini_ready = FALSE
    /\ requests = <<>> /\ in_flight = None /\ outcome = None /\ replies = <<>>

\* generate_replica up to the request: the prompt is built from the record
\* and generate_content_async is awaited.
GenerateRequest(brands) ==
    /\ pc = "start"
    /\ \E b \in brands : brand_data' = Some(b)
    /\ pc' = "generating"
    /\ UNCHANGED <<text, generated, colorVars, normVars, cmpVars, toolVars>>

\* The model answers with some text; generate_replica parses it, puts the
\* :root block in front of the css and returns the GeneratedCode record.
GenerateReturn(n) ==
    /\ pc = "generating"
    /\ \E cs \in ChunkSeqs(n) \cup {CanonicalChunks} :
          LET t == Concat(cs)
          IN  /\ text' = Some(t)
              /\ generated' = Some(generate_replica(brand_data[1], LandingPage, t))
    /\ pc' = "generated"
    /\ UNCHANGED <<brand_data, colorVars, normVars, cmpVars, toolVars>>

InitParse == pc = "start" /\ Idle /\ env = KeysSet

NextParse ==
    \/ GenerateRequest({SampleBrand})
    \/ GenerateReturn(MaxChunks)

\* The parser on every model text of at most MaxChunks chunks, one brand record.
SpecParse == InitParse /\ [][NextParse]_vars

InitGen == pc = "start" /\ Idle /\ env = KeysSet

NextGen ==
    \/ GenerateRequest(GenBrands)
    \/ GenerateReturn(MaxGenChunks)

\* generate_replica on every record of GenBrands and every model text of at
\* most MaxGenChunks chunks.
SpecGen == InitGen /\ [][NextGen]_vars

\* One call of calculate_color_similarity.
ScoreCall ==
    /\ pc = "start"
    /\ \E k \in 0..MaxPieces : \E ps \in [1..k -> ColorPieces] :
          LET c1 == Concat(ps)
          IN  \E c2 \in RefColors \cup {c1} :
                 /\ color1' = Some(c1)
                 /\ color2' = Some(c2)
                 /\ similarity' = Some(calculate_color_similarity(c1, c2))
    /\ pc' = "scored"
    /\ UNCHANGED <<genVars, normVars, cmpVars, toolVars>>

InitColor == pc = "start" /\ Idle /\ env = KeysSet

NextColor == ScoreCall

\* The scorer on every colour string of at most MaxPieces pieces against the
\* reference colours and itself.
SpecColor == InitColor /\ [][NextColor]_vars

\* FirecrawlService.extract_brand from the arrival of the response: the
\* payload is normalized into a BrandData record, or an exception is raised.
ExtractBrand ==
    /\ pc = "start"
    /\ \E resp \in Responses, inc \in BOOLEAN :
          /\ response' = Some(resp)
          /\ include_screenshots' = inc
          /\ brand' = Some(extract_brand(resp, UrlA, inc))
    /\ pc' = "normalized"
    /\ UNCHANGED <<dumped, renormalized, genVars, colorVars, cmpVars, toolVars>>

\* A caller builds a record itself (BrandData(...), BrandData.model_validate).
ValidateRecord ==
    /\ pc = "start"
    /\ \E r \in GivenBrands : brand' = Some(Returned(r))
    /\ pc' = "normalized"
    /\ UNCHANGED <<response, include_screenshots, dumped, renormalized,
                   genVars, colorVars, cmpVars, toolVars>>

\* brand_data.model_dump(): the record is returned as a plain mapping.
Serialize ==
    /\ pc = "normalized"
    /\ brand[1].ok
    /\ dumped' = Some(model_dump(brand[1].value))
    /\ pc' = "dumped"
    /\ UNCHANGED <<response, include_screenshots, brand, renormalized,
                   genVars, colorVars, cmpVars, toolVars>>

\* The response that hands the serialized record r back to extract_brand,
\* with r's first screenshot.
ResponseOf(mapping, r) ==
    IF r.screenshots = <<>> THEN [data |-> [extract |-> mapping]]
    ELSE [data |-> [extract |-> mapping, screenshot |-> JStr(r.screenshots[1])]]

\* The serialized record is normalized again, with the record's source url
\* and screenshot.
Renormalize ==
    /\ pc = "dumped"
    /\ LET r == brand[1].value
       IN  renormalized' =
              Some(extract_brand(ResponseOf(dumped[1], r), r.url, r.screenshots # <<>>))
    /\ pc' = "renormalized"
    /\ UNCHANGED <<response, include_screenshots, brand, dumped,
                   genVars, colorVars, cmpVars, toolVars>>

InitNorm == pc = "start" /\ Idle /\ env = KeysSet

NextNorm == ExtractBrand \/ ValidateRecord \/ Serialize \/ Renormalize

\* The normalizer on every response of Responses, and the round trip of every
\* record it returns and of the records of GivenBrands.
SpecNorm == InitNorm /\ [][NextNorm]_vars

\* compare_brands up to the first extraction: both service objects are
\* constructed, the extraction client is open.
CompareStart ==
    /\ pc = "start"
    /\ client_open' = TRUE
    /\ pc' = "extract1"
    /\ UNCHANGED <<brand1, brand2, comparison, genVars, colorVars, normVars, toolVars>>

\* extract_brand up to its await: the /scrape request is posted
\* (firecrawl.py 134) and the caller is suspended until the reply.
SendExtract ==
    /\ pc \in {"extract1", "extract2"}
    /\ requests' = Append(requests, pc)
    /\ in_flight' = Some(pc)
    /\ pc' = IF pc = "extract1" THEN "await1" ELSE "await2"
    /\ UNCHANGED <<replies, env, tool, arg, gemini_ready, outcome, cmpVars,
                   genVars, colorVars, normVars>>

\* brand1 = await firecrawl.extract_brand(url1), resumed with the reply to
\* the request SendExtract has posted: a record, or the exception that leaves
\* the try block.
Extract1 ==
    /\ pc = "await1"
    /\ in_flight' = None
    /\ \E reply \in CompareReplies :
          LET out == extract_brand_from(reply, UrlA, FALSE)
          IN  IF out.ok
              THEN brand1' = Some(out.value) /\ comparison' = comparison /\ pc' = "extract2"
              ELSE brand1' = brand1 /\ comparison' = Some(out) /\ pc' = "failing"
    /\ UNCHANGED <<replies, brand2, client_open, env, tool, arg, gemini_ready, requests, outcome,
                   genVars, colorVars, normVars>>

\* brand2 = await firecrawl.extract_brand(url2), resumed with the reply
Extract2 ==
    /\ pc = "await2"
    /\ in_flight' = None
    /\ \E reply \in CompareReplies :
          LET out == extract_brand_from(reply, UrlB, FALSE)
          IN  IF out.ok
              THEN brand2' = Some(out.value) /\ comparison' = comparison /\ pc' = "extracted"
              ELSE brand2' = brand2 /\ comparison' = Some(out) /\ pc' = "failing"
    /\ UNCHANGED <<replies, brand1, client_open, env, tool, arg, gemini_ready, requests, outcome,
                   genVars, colorVars, normVars>>

\* finally: await firecrawl.close() up to the await inside aclose(): the
\* client is closed and the tool is suspended (firecrawl.py 187-189).
CloseClient ==
    /\ pc \in {"extracted", "failing"}
    /\ client_open' = FALSE
    /\ pc' = "closing"
    /\ UNCHANGED <<brand1, brand2, comparison, genVars, colorVars, normVars, toolVars>>

\* close() returns: a pending exception propagates, else the tool goes on.
CloseReturns ==
    /\ pc = "closing"
    /\ pc' = IF comparison # None THEN "raised" ELSE "scoring"
    /\ UNCHANGED <<cmpVars, genVars, colorVars, normVars, toolVars>>

\* The rest of compare_brands: score, flags, the Comparison record and its
\* model_dump, or the ValidationError of its construction.
Compare ==
    /\ pc = "scoring"
    /\ \E overlap \in Orderings(font_overlap(brand1[1], brand2[1])) :
          LET out == compare_brands(brand1[1], brand2[1], overlap)
          IN  /\ comparison' = Some(out)
              /\ pc' = IF out.ok THEN "returned" ELSE "raised"
    /\ UNCHANGED <<brand1, brand2, client_open, genVars, colorVars, normVars, toolVars>>

InitCompare == pc = "start" /\ Idle /\ env = KeysSet

NextCompare ==
    \/ CompareStart \/ SendExtract \/ Extract1 \/ Extract2
    \/ CloseClient \/ CloseReturns \/ Compare

\* One invocation of the compare_brands tool.
SpecCompare == InitCompare /\ [][NextCompare]_vars

\* FirecrawlService(api_key): the constructor runs to its return or its raise.
NewFirecrawlService ==
    /\ pc = "start"
    /\ \E api_key \in KeyValues :
          LET out == FirecrawlService(api_key, env)
          IN  /\ arg' = Some(api_key)
              /\ outcome' = Some(out)
              /\ client_open' = out.ok
    /\ tool' = Some("FirecrawlService")
    /\ pc' = "constructed"
    /\ UNCHANGED <<replies, env, gemini_ready, requests, in_flight, brand1, brand2, comparison,
                   genVars, colorVars, normVars>>

\* GeminiService(api_key)
NewGeminiService ==
    /\ pc = "start"
    /\ \E api_key \in KeyValues :
          LET out == GeminiService(api_key, env)
          IN  /\ arg' = Some(api_key)
              /\ outcome' = Some(out)
              /\ gemini_ready' = out.ok
    /\ tool' = Some("GeminiService")
    /\ pc' = "constructed"
    /\ UNCHANGED <<replies, env, client_open, requests, in_flight, brand1, brand2, comparison,
                   genVars, colorVars, normVars>>

\* FirecrawlService.scrape from the reply (firecrawl.py 60-62): the status
\* error raise_for_status() raises, or the body as response.json() gives it.
scrape(reply) ==
    IF ~(200 <= reply.status /\ reply.status <= 299) THEN HTTPStatusError
    ELSE Returned(reply.body)

\* FirecrawlService.scrape(url, include_screenshot) up to its await
\* (firecrawl.py 42-60): a caller holds a constructed service, the payload
\* is built and POST /scrape is sent on the service's client.
SendScrape ==
    /\ pc = "constructed"
    /\ tool = Some("FirecrawlService") /\ outcome[1].ok /\ client_open
    /\ \E include_screenshot \in BOOLEAN :
          LET formats == <<"html", "markdown">>
                            \o (IF include_screenshot THEN <<"screenshot">> ELSE <<>>)
          IN  requests' = Append(requests,
                                 [path |-> "/scrape", url |-> UrlA, formats |-> formats])
    /\ in_flight' = Some("scrape")
    /\ pc' = "await_scrape"
    /\ UNCHANGED <<replies, env, tool, arg, gemini_ready, outcome, cmpVars,
                   genVars, colorVars, normVars>>

\* scrape resumes with the reply: it raises the status error or returns the
\* raw body; the client stays open.
ScrapeReply ==
    /\ pc = "await_scrape"
    /\ in_flight' = None
    /\ \E reply \in ToolReplies :
          /\ replies' = Append(replies, reply)
          /\ outcome' = Some(scrape(reply))
          /\ pc' = IF scrape(reply).ok THEN "returned" ELSE "raised"
    /\ UNCHANGED <<env, tool, arg, gemini_ready, requests, cmpVars,
                   genVars, colorVars, normVars>>

InitCred == pc = "start" /\ Idle /\ env \in Environments

NextCred == NewFirecrawlService \/ NewGeminiService \/ SendScrape \/ ScrapeReply

\* The two service constructors, for every supplied key and environment, and
\* the scrape method on a constructed extraction service.
SpecCred == InitCred /\ [][NextCred]_vars

(***************************************************************************)
(* The five tools of tools.py, from the start of the server.  pc is the    *)
(* position of the one invocation; requests is the list of the collaborator *)
(* requests issued so far, in_flight the request that is awaited, replies  *)
(* the list of the replies received so far.                                *)
(***************************************************************************)
\* Mutant of AfterExtract: compare_brands goes on to the second extraction
\* whatever the first one gave.
AfterExtractRegardless(t, first, ok) ==
    IF first /\ t = "compare_brands" THEN "extract2" ELSE "close"

\* Where a tool goes after an extraction (tools.py 110-116): compare_brands
\* goes on to its second extraction after a first that succeeded; otherwise
\* the try block is left, by its end or by the exception.
AfterExtract(t, first, ok) ==
    IF ok /\ first /\ t = "compare_brands" THEN "extract2" ELSE "close"

\* Mutant of close: the HTTP client is left open.
close_nothing(open) == open

\* FirecrawlService.close (firecrawl.py 187-189): whether the HTTP client is
\* open after await self.client.aclose().
close(open) == FALSE

\* create_server (server.py 23-31): the tools are registered; no key is read.
CreateServer ==
    /\ pc = "boot"
    /\ pc' = "serving"
    /\ UNCHANGED <<toolVars, cmpVars, genVars, colorVars, normVars>>

\* A caller invokes one of the tools.
Invoke ==
    /\ pc = "serving"
    /\ \E t \in {"extract_brand", "generate_replica", "replicate_website",
                 "compare_brands", "apply_brand_to_template"} :
          /\ tool' = Some(t)
          /\ \E a \in ToolArgs(t) : arg' = Some(a)
          /\ pc' = IF t = "generate_replica" THEN "validate" ELSE "firecrawl_init"
    /\ UNCHANGED <<replies, env, gemini_ready, requests, in_flight, outcome,
                   cmpVars, genVars, colorVars, normVars>>

\* generate_replica: brand = BrandData.model_validate(brand_data) (tools.py 54)
ValidateArg ==
    /\ pc = "validate"
    /\ LET out == model_validate(arg[1].brand_data)
       IN  IF out.ok
           THEN brand1' = Some(out.value) /\ outcome' = outcome /\ pc' = "gemini_init"
           ELSE brand1' = brand1 /\ outcome' = Some(out) /\ pc' = "raised"
    /\ UNCHANGED <<replies, env, tool, arg, gemini_ready, requests, in_flight,
                   brand2, client_open, comparison, genVars, colorVars, normVars>>

\* firecrawl = FirecrawlService() (tools.py 28, 79, 107, 170)
ConstructFirecrawl ==
    /\ pc = "firecrawl_init"
    /\ LET out == FirecrawlService(None, env)
       IN  IF out.ok
           THEN /\ client_open' = TRUE /\ outcome' = outcome
                /\ pc' = IF tool = Some("compare_brands") THEN "gemini_init" ELSE "extract1"
           ELSE client_open' = client_open /\ outcome' = Some(out) /\ pc' = "raised"
    /\ UNCHANGED <<replies, env, tool, arg, gemini_ready, requests, in_flight,
                   brand1, brand2, comparison, genVars, colorVars, normVars>>

\* gemini = GeminiService() (tools.py 56, 86, 108, 177); in compare_brands it
\* stands before the try block, so its ValueError leaves without the finally.
ConstructGemini ==
    /\ pc = "gemini_init"
    /\ LET out == GeminiService(None, env)
       IN  IF out.ok
           THEN /\ gemini_ready' = TRUE /\ outcome' = outcome
                /\ pc' = IF tool = Some("compare_brands") THEN "extract1" ELSE "generate"
           ELSE gemini_ready' = gemini_ready /\ outcome' = Some(out) /\ pc' = "raised"
    /\ UNCHANGED <<replies, env, tool, arg, requests, in_flight, cmpVars,
                   genVars, colorVars, normVars>>

\* extract_brand from the reply (firecrawl.py 135-185): the record, or the
\* exception that leaves the try block.
ExtractReply ==
    /\ pc \in {"await1", "await2"}
    /\ in_flight' = None
    /\ \E reply \in ToolReplies :
          LET first == pc = "await1"
              a == arg[1]
              url == IF tool = Some("compare_brands")
                     THEN (IF first THEN a.url1 ELSE a.url2) ELSE a.url
              include == tool = Some("extract_brand") /\ a.include_screenshots
              out == extract_brand_from(reply, url, include)
          IN  /\ replies' = Append(replies, reply)
              /\ brand1' = IF out.ok /\ first THEN Some(out.value) ELSE brand1
              /\ brand2' = IF out.ok /\ ~first THEN Some(out.value) ELSE brand2
              /\ outcome' = IF out.ok THEN outcome ELSE Some(out)
              /\ pc' = AfterExtract(tool[1], first, out.ok)
    /\ UNCHANGED <<env, tool, arg, gemini_ready, requests, client_open, comparison,
                   genVars, colorVars, normVars>>

\* finally: await firecrawl.close() up to the await inside aclose(): the
\* client is closed and the tool is suspended.
CloseFirecrawl ==
    /\ pc = "close"
    /\ client_open' = close(client_open)
    /\ pc' = "closing"
    /\ UNCHANGED <<replies, env, tool, arg, gemini_ready, requests, in_flight, outcome,
                   brand1, brand2, comparison, genVars, colorVars, normVars>>

\* close() returns: the pending exception leaves the tool, or extract_brand
\* returns the serialized record, or the tool goes on.
LeaveFinally ==
    /\ pc = "closing"
    /\ IF outcome # None
       THEN pc' = "raised" /\ outcome' = outcome
       ELSE IF tool = Some("extract_brand")
       THEN pc' = "returned" /\ outcome' = Some(Returned(model_dump(brand1[1])))
       ELSE /\ pc' = IF tool = Some("compare_brands") THEN "score" ELSE "gemini_init"
            /\ outcome' = outcome
    /\ UNCHANGED <<replies, env, tool, arg, gemini_ready, requests, in_flight,
                   cmpVars, genVars, colorVars, normVars>>

\* gemini.generate_replica / generate_from_template up to its await: the
\* prompt is sent (gemini.py 107).
SendGenerate ==
    /\ pc = "generate"
    /\ requests' = Append(requests, "generate")
    /\ in_flight' = Some("generate")
    /\ pc' = "await_generate"
    /\ UNCHANGED <<replies, env, tool, arg, gemini_ready, outcome, cmpVars,
                   genVars, colorVars, normVars>>

\* The generation request fails, or its text is parsed and the tool returns
\* its record (tools.py 58-59, 89-92, 180-186).
GenerateReply ==
    /\ pc = "await_generate"
    /\ in_flight' = None
    /\ \E reply \in GenerateReplies :
          /\ replies' = Append(replies, reply)
          /\ IF "error" \in DOMAIN reply
             THEN /\ outcome' = Some([ok |-> FALSE, error |-> reply.error])
                  /\ pc' = "raised"
                  /\ UNCHANGED <<text, generated>>
             ELSE LET a == arg[1]
                      kind == IF tool = Some("apply_brand_to_template")
                              THEN a.template_type ELSE a.component_type
                      code == generate_replica(brand1[1], kind, reply.text)
                  IN  /\ text' = Some(reply.text)
                      /\ generated' = Some(code)
                      /\ outcome' = Some(Returned(
                            IF tool = Some("generate_replica") THEN code
                            ELSE IF tool = Some("replicate_website")
                            THEN [brand_data |-> model_dump(brand1[1]), generated |-> code]
                            ELSE [html |-> code.html, css |-> code.css,
                                  template_type |-> a.template_type, source_url |-> a.url]))
                      /\ pc' = "returned"
    /\ UNCHANGED <<env, tool, arg, gemini_ready, requests, brand_data, cmpVars,
                   colorVars, normVars>>

\* compare_brands after the close: the score of calculate_color_similarity,
\* the flags and the Comparison record, or the error of its construction.
Score ==
    /\ pc = "score"
    /\ \E overlap \in Orderings(font_overlap(brand1[1], brand2[1])) :
          LET out == compare_brands(brand1[1], brand2[1], overlap)
          IN  /\ outcome' = Some(out)
              /\ comparison' = Some(out)
              /\ pc' = IF out.ok THEN "returned" ELSE "raised"
    /\ UNCHANGED <<replies, env, tool, arg, gemini_ready, requests, in_flight,
                   brand1, brand2, client_open, genVars, colorVars, normVars>>

InitTools ==
    /\ pc = "boot" /\ Idle
    /\ env \in { Environment(f, g) : f \in {None, Some(KeyF)}, g \in {None, Some(KeyG)} }

NextTools ==
    \/ CreateServer \/ Invoke \/ ValidateArg
    \/ ConstructFirecrawl \/ ConstructGemini
    \/ SendExtract \/ ExtractReply \/ CloseFirecrawl \/ LeaveFinally
    \/ SendGenerate \/ GenerateReply \/ Score

\* The server and one invocation of any of its tools, in every environment.
SpecTools == InitTools /\ [][NextTools]_vars

(***************************************************************************)
(* Vocabulary of the claims about the parser, stated by positions in the   *)
(* text rather than by the parser's own splitting.                         *)
(***************************************************************************)
\* The indices at which sep occurs in s.
Occurrences(s, sep) ==
    { i \in 1..(Len(s) - Len(sep) + 1) : SubSeq(s, i, i + Len(sep) - 1) = sep }

Min(S) == CHOOSE x \in S : \A y \in S : x <= y
Max(S) == CHOOSE x \in S : \A y \in S : x >= y

\* s without its leading and trailing whitespace.
Trimmed(s) ==
    LET inked == { i \in 1..Len(s) : s[i] \notin Whitespace }
    IN  IF inked = {} THEN <<>> ELSE SubSeq(s, Min(inked), Max(inked))

\* Both markers of the primary convention occur in t.
MarkerPair(t) == Occurrences(t, MarkHTML) # {} /\ Occurrences(t, MarkCSS) # {}

\* The :root block generate_replica puts in front of the parsed css.
RootBlock(b) ==
    <<":", "r", "o", "o", "t", " ", "{", "\n">> \o brand_to_css_variables(b)
        \o <<"\n", "}", "\n", "\n">>

\* The parsed CSS body: the returned css after the :root block.
CssBody == SubSeq(generated[1].css, Len(RootBlock(brand_data[1])) + 1,
                  Len(generated[1].css))

\* The trimmed text that follows the first occurrence of tag: it runs up to
\* the next occurrence of tag that starts after the first one has ended, or
\* to the end of the text, and is cut at the first occurrence of stop that
\* lies wholly inside it; empty when tag does not occur.
AfterFirst(t, tag, stop) ==
    IF Occurrences(t, tag) = {} THEN <<>>
    ELSE LET start == Min(Occurrences(t, tag)) + Len(tag)
             again == { k \in Occurrences(t, tag) : k >= start }
             last == IF again = {} THEN Len(t) ELSE Min(again) - 1
             inside == { k \in Occurrences(t, stop) :
                            k >= start /\ k + Len(stop) - 1 <= last }
         IN  Trimmed(SubSeq(t, start, IF inside = {} THEN last ELSE Min(inside) - 1))

\* The fenced blocks of t tagged tag: a tag and a closing fence after it.
FencedBlocks(t, tag) ==
    { blk \in Occurrences(t, tag) \X Occurrences(t, Fence) : blk[2] >= blk[1] + Len(tag) }

\* C1 (as claimed): whenever the model text contains ---HTML---, ---CSS---
\* and ---END--- in that order, html is the trimmed text between ---HTML---
\* and ---CSS--- and the parsed CSS body is the trimmed text between
\* ---CSS--- and ---END---.  Stated in the weakest reading: for SOME
\* occurrences of the three markers in that order.
C1_MarkersInOrder ==
    pc = "generated" =>
        LET t == text[1]
            triples == { tr \in Occurrences(t, MarkHTML) \X Occurrences(t, MarkCSS)
                                   \X Occurrences(t, MarkEND) :
                            /\ tr[1] + Len(MarkHTML) <= tr[2]
                            /\ tr[2] + Len(MarkCSS) <= tr[3] }
        IN  triples # {} =>
                \E tr \in triples :
                    /\ generated[1].html =
                          Trimmed(SubSeq(t, tr[1] + Len(MarkHTML), tr[2] - 1))
                    /\ CssBody = Trimmed(SubSeq(t, tr[2] + Len(MarkCSS), tr[3] - 1))

\* C2 (as claimed): when the marker pair is not present, html (css) is the
\* trimmed content of a fenced block tagged html (css), a tag followed by a
\* closing fence, if one exists, and both are empty when there is no fenced
\* block at all.
C2_FencedBlocksOnly ==
    (pc = "generated" /\ ~MarkerPair(text[1])) =>
        LET t == text[1]
            hb == FencedBlocks(t, FenceHTML)
            cb == FencedBlocks(t, FenceCSS)
            content(blk, tag) == Trimmed(SubSeq(t, blk[1] + Len(tag), blk[2] - 1))
        IN  /\ hb # {} => \E blk \in hb : generated[1].html = content(blk, FenceHTML)
            /\ cb # {} => \E blk \in cb : CssBody = content(blk, FenceCSS)
            /\ (hb = {} /\ cb = {}) => (generated[1].html = <<>> /\ CssBody = <<>>)

\* The parsed CSS body the code produces for t: under the marker pair, the
\* text after the first ---CSS--- up to the next ---CSS--- or ---END---;
\* otherwise the text after the first css tag up to the next css tag or
\* fence.
ExpectedCssBody(t) ==
    IF MarkerPair(t) THEN AfterFirst(t, MarkCSS, MarkEND)
    ELSE AfterFirst(t, FenceCSS, Fence)

\* C3: the returned css is the :root block with the record's custom
\* properties, "}", a blank line, then the parsed CSS body; it starts with
\* ":root {" and "--color-primary: <primary>;" stands before the parsed body.
C3_RootBlockFirst ==
    pc = "generated" =>
        LET css == generated[1].css
            b == brand_data[1]
            body == ExpectedCssBody(text[1])
            decl == <<"-", "-", "c", "o", "l", "o", "r", "-", "p", "r", "i", "m", "a", "r", "y", ":", " ">>
                        \o b.colors.primary \o <<";">>
        IN  /\ css = <<":", "r", "o", "o", "t", " ", "{", "\n">>
                        \o brand_to_css_variables(b)
                        \o <<"\n", "}", "\n", "\n">> \o body
            /\ SubSeq(css, 1, 7) = <<":", "r", "o", "o", "t", " ", "{">>
            /\ \E p \in Occurrences(css, decl) : p + Len(decl) <= Len(css) - Len(body) + 1

\* C3 witness: a record with primary #FF5A5F and a response with both markers
\* and a non-empty CSS body.
C3_Witness ==
    /\ pc = "generated"
    /\ brand_data[1].colors.primary = ColCoral
    /\ MarkerPair(text[1])
    /\ ExpectedCssBody(text[1]) # <<>>
    /\ Len(generated[1].css) > Len(ExpectedCssBody(text[1]))

(***************************************************************************)
(* Claims about the colour similarity score.                               *)
(***************************************************************************)
\* A well-formed colour: an optional leading "#" and exactly six hex digits.
ValidColor(c) ==
    LET d == IF c # <<>> /\ c[1] = "#" THEN Tail(c) ELSE c
    IN  Len(d) = 6 /\ \A i \in 1..6 : d[i] \in HexDigits

\* Channel n (1..3) of a well-formed colour.
Channel(c, n) ==
    LET d == IF c[1] = "#" THEN Tail(c) ELSE c
    IN  16 * HexDigitValue(d[2 * n - 1]) + HexDigitValue(d[2 * n])

\* The squared Euclidean RGB distance of two well-formed colours.
ColorDistance2(c1, c2) ==
    LET sq(x) == x * x
    IN  sq(Channel(c1, 1) - Channel(c2, 1)) + sq(Channel(c1, 2) - Channel(c2, 2))
          + sq(Channel(c1, 3) - Channel(c2, 3))

\* k thousandths is 1 - sqrt(d2) / sqrt(3 * 255^2) rounded to 3 decimals: with
\* m = 1000 - k, m - 1/2 <= 1000 * sqrt(d2 / 195075) < m + 1/2, that is
\* (2m - 1)^2 <= 4 * 10^6 * d2 / 195075 < (2m + 1)^2.
IsRoundedScore(k, d2) ==
    LET m == 1000 - k
    IN  /\ m >= 0
        /\ (m >= 1 => (2 * m - 1) * (2 * m - 1) <= ScaledRatio(d2))
        /\ ScaledRatio(d2) < (2 * m + 1) * (2 * m + 1)

\* C7: for two well-formed colours the score lies in [0, 1], is 1.0 for equal
\* colours, 0.0 for #000000 against #FFFFFF, and is 1 - distance / sqrt(3 * 255^2)
\* rounded to 3 decimals.
C7_ValidColors ==
    (pc = "scored" /\ ValidColor(color1[1]) /\ ValidColor(color2[1])) =>
        /\ similarity[1] >= 0 /\ similarity[1] <= 1000
        /\ (color1[1] = color2[1] => similarity[1] = 1000)
        /\ ({color1[1], color2[1]} = {ColBlack, ColWhite} => similarity[1] = 0)
        /\ IsRoundedScore(similarity[1], ColorDistance2(color1[1], color2[1]))

\* C7 witness: two different well-formed colours scored strictly between 0 and 1.
C7_Witness ==
    /\ pc = "scored"
    /\ ValidColor(color1[1]) /\ ValidColor(color2[1])
    /\ color1[1] # color2[1]
    /\ similarity[1] > 0 /\ similarity[1] < 1000

\* C8 (as claimed): when at least one of the two strings is not a well-formed
\* colour, the score is exactly 0.0.
C8_MalformedScoresZero ==
    (pc = "scored" /\ (~ValidColor(color1[1]) \/ ~ValidColor(color2[1]))) =>
        similarity[1] = 0

(***************************************************************************)
(* Claims about the normalizer.                                            *)
(***************************************************************************)
\* The extracted mapping of a response: data.extract, or an empty mapping.
PayloadOf(resp) ==
    IF "data" \in DOMAIN resp /\ "extract" \in DOMAIN resp.data
    THEN resp.data.extract ELSE <<>>

\* Whether the payload has section.key.
HasField(payload, section, key) ==
    section \in DOMAIN payload /\ key \in DOMAIN payload[section]

\* extract_brand has returned a record for the response.
Normalized == pc = "normalized" /\ response # None /\ brand[1].ok

\* C4: in the record extract_brand returns, colors.primary is the payload's
\* value, or "#000000" when the payload omits it (also with no colors section
\* at all); typography.headings and body are the payload's values or
\* "sans-serif"; weights are [400, 600, 700] when absent; spacing.grid is
\* "8px"; buttons.primary is null when the payload has no buttons section.
C4_Defaults ==
    Normalized =>
        LET payload == PayloadOf(response[1])
            b == brand[1].value
        IN  /\ b.colors.primary =
                  IF HasField(payload, "colors", "primary")
                  THEN payload.colors.primary.str
                  ELSE <<"#", "0", "0", "0", "0", "0", "0">>
            /\ b.typography.headings =
                  IF HasField(payload, "typography", "headings")
                  THEN payload.typography.headings.str
                  ELSE <<"s", "a", "n", "s", "-", "s", "e", "r", "i", "f">>
            /\ b.typography.body =
                  IF HasField(payload, "typography", "body")
                  THEN payload.typography.body.str
                  ELSE <<"s", "a", "n", "s", "-", "s", "e", "r", "i", "f">>
            /\ (~HasField(payload, "typography", "weights")
                   => b.typography.weights = <<400, 600, 700>>)
            /\ b.spacing.grid = <<"8", "p", "x">>
            /\ ("buttons" \notin DOMAIN payload => b.buttons.primary = None)

\* C4 witness: a payload with a typography section but no colors and no
\* buttons section has been normalized with the defaults.
C4_Witness ==
    /\ Normalized
    /\ "colors" \notin DOMAIN PayloadOf(response[1])
    /\ "buttons" \notin DOMAIN PayloadOf(response[1])
    /\ HasField(PayloadOf(response[1]), "typography", "headings")
    /\ ~HasField(PayloadOf(response[1]), "typography", "body")
    /\ brand[1].value.colors.primary = ColBlack
    /\ brand[1].value.typography.body = FontSansSerif
    /\ brand[1].value.buttons.primary = None

\* C5 (as claimed): whenever the payload supplies a buttons.primary object
\* without "bg", whatever else it holds (also nothing), the record has a
\* primary button whose bg is the record's colors.primary, and whose text is
\* "#ffffff" when the object gives no text.
C5_PrimaryButtonBackfill ==
    Normalized =>
        LET payload == PayloadOf(response[1])
            b == brand[1].value
        IN  (/\ HasField(payload, "buttons", "primary")
             /\ payload.buttons.primary # JNull
             /\ IsDict(payload.buttons.primary)
             /\ "bg" \notin DOMAIN payload.buttons.primary)
            => /\ b.buttons.primary # None
               /\ b.buttons.primary[1].bg = b.colors.primary
               /\ ("text" \notin DOMAIN payload.buttons.primary
                      => b.buttons.primary[1].text = <<"#", "f", "f", "f", "f", "f", "f">>)

\* C6 (as claimed): serializing any Brand Record and normalizing the mapping
\* back with the record's url and screenshots gives an equal record.
C6_RoundTripAll ==
    pc = "renormalized" =>
        (renormalized[1].ok /\ renormalized[1].value = brand[1].value)

\* The shape of the records extract_brand builds: the fields its extraction
\* schema does not ask for hold their defaults.
ExtractShape(r) ==
    /\ r.typography.base_size = Some(<<"1", "6", "p", "x">>)
    /\ r.typography.line_height = Some(<<"1", ".", "5">>)
    /\ r.spacing.grid = <<"8", "p", "x">>
    /\ DOMAIN r.spacing.margins = {} /\ DOMAIN r.spacing.padding = {}
    /\ r.spacing.gap = None
    /\ r.buttons.secondary = None /\ r.buttons.outline = None
    /\ (r.buttons.primary # None =>
           (r.buttons.primary[1].border = None /\ r.buttons.primary[1].hover_bg = None))
    /\ Len(r.screenshots) <= 1

\* What extract_brand returns is always in that shape: the record it builds
\* from a response, and the record it builds from a serialized record.
ExtractedInShape ==
    /\ Normalized => ExtractShape(brand[1].value)
    /\ (pc = "renormalized" /\ renormalized[1].ok) => ExtractShape(renormalized[1].value)

\* C6 (amended): for every Brand Record in the shape extract_brand builds,
\* serializing it and normalizing the mapping back with the record's url and
\* screenshot gives an equal record; and every record extract_brand returns
\* has that shape.
C6_RoundTrip ==
    /\ (pc = "renormalized" /\ ExtractShape(brand[1].value)) =>
           (renormalized[1].ok /\ renormalized[1].value = brand[1].value)
    /\ ExtractedInShape

\* C6 witness: a record with a secondary colour, a primary button, a logo
\* and a screenshot has made the round trip.
C6_Witness ==
    /\ pc = "renormalized"
    /\ ExtractShape(brand[1].value)
    /\ brand[1].value.colors.secondary # None
    /\ brand[1].value.buttons.primary # None
    /\ brand[1].value.buttons.primary[1].border_radius # <<"4", "p", "x">>
    /\ brand[1].value.logo_url # None
    /\ brand[1].value.screenshots # <<>>
    /\ renormalized[1].ok

(***************************************************************************)
(* Claims about the comparator.                                            *)
(***************************************************************************)
\* C9 (as claimed): once both extractions have succeeded, compare_brands
\* returns a Comparison record, whose score lies in [0, 1], whatever strings
\* the two primary colours are.
C9_ComparisonNeverAborts ==
    (brand1 # None /\ brand2 # None /\ pc \in {"returned", "raised"}) =>
        /\ comparison[1].ok
        /\ comparison[1].value.comparison.color_similarity \in 0..1000

\* Two characters are the same letter in either case.
CasePair(c, d) ==
    \E k \in DOMAIN UpperLetters : {c, d} = {UpperLetters[k], LowerLetters[k]}

\* Two strings are equal ignoring case.
EqualIgnoringCase(a, b) ==
    /\ Len(a) = Len(b)
    /\ \A i \in 1..Len(a) : a[i] = b[i] \/ CasePair(a[i], b[i])

\* C10: in a returned Comparison record, typography_match is true exactly
\* when the two headings are equal ignoring case or the two body fonts are
\* equal ignoring case.
C10_TypographyMatch ==
    pc = "returned" =>
        (comparison[1].value.comparison.typography_match
            <=> \/ EqualIgnoringCase(brand1[1].typography.headings, brand2[1].typography.headings)
                \/ EqualIgnoringCase(brand1[1].typography.body, brand2[1].typography.body))

\* C10 witness: headings "Arial" and "arial", body fonts that differ, and a
\* returned record with typography_match true.
C10_Witness ==
    /\ pc = "returned"
    /\ brand1[1].typography.headings = <<"A", "r", "i", "a", "l">>
    /\ brand2[1].typography.headings = <<"a", "r", "i", "a", "l">>
    /\ ~EqualIgnoringCase(brand1[1].typography.body, brand2[1].typography.body)
    /\ comparison[1].value.comparison.typography_match

\* The elements of a sequence.
Elements(l) == { l[i] : i \in 1..Len(l) }

\* The heading and body font names of a record, as written.
FontNames(b) == {b.typography.headings, b.typography.body}

\* C11: in a returned Comparison record, font_overlap holds, each once and
\* in lower case, exactly the names that occur among the fonts of both
\* records when compared ignoring case.
C11_FontOverlap ==
    pc = "returned" =>
        LET overlap == comparison[1].value.comparison.font_overlap
        IN  /\ \A i, j \in 1..Len(overlap) : overlap[i] = overlap[j] => i = j
            /\ \A f \in Elements(overlap) :
                  /\ \A i \in 1..Len(f) : \A k \in DOMAIN UpperLetters : f[i] # UpperLetters[k]
                  /\ \E x \in FontNames(brand1[1]) : EqualIgnoringCase(f, x)
                  /\ \E y \in FontNames(brand2[1]) : EqualIgnoringCase(f, y)
            /\ \A x \in FontNames(brand1[1]) : \A y \in FontNames(brand2[1]) :
                  EqualIgnoringCase(x, y) =>
                      \E f \in Elements(overlap) : EqualIgnoringCase(f, x)

\* C11 witness: records with headings "Arial" and "arial" and the same body
\* font have been compared, and two names are shared.
C11_Witness ==
    /\ pc = "returned"
    /\ brand1[1].typography.headings # brand2[1].typography.headings
    /\ EqualIgnoringCase(brand1[1].typography.headings, brand2[1].typography.headings)
    /\ brand1[1].typography.body = brand2[1].typography.body
    /\ Len(comparison[1].value.comparison.font_overlap) = 2

\* The message of a difference: a label, then the two values as written.
Message(label, a, b) == label \o a \o <<" ", "v", "s", " ">> \o b

LabelPrimary == <<"P", "r", "i", "m", "a", "r", "y", " ", "c", "o", "l", "o", "r", ":", " ">>
LabelHeading == <<"H", "e", "a", "d", "i", "n", "g", " ", "f", "o", "n", "t", ":", " ">>
LabelBody == <<"B", "o", "d", "y", " ", "f", "o", "n", "t", ":", " ">>

\* The three entries differences can hold, in their order.
DifferenceEntries(a, b) ==
    << Message(LabelPrimary, a.colors.primary, b.colors.primary),
       Message(LabelHeading, a.typography.headings, b.typography.headings),
       Message(LabelBody, a.typography.body, b.typography.body) >>

\* C12: in a returned Comparison record, differences holds at most three
\* entries, each one of the primary-colour, heading-font and body-font
\* messages with the values as written, in that order; the primary-colour
\* entry is there exactly when the two primary strings differ, the heading
\* and body entries exactly when the fonts differ ignoring case.
C12_Differences ==
    pc = "returned" =>
        LET d == comparison[1].value.comparison.differences
            entries == DifferenceEntries(brand1[1], brand2[1])
            Rank(i) == CHOOSE k \in 1..3 : d[i] = entries[k]
            Has(k) == \E i \in 1..Len(d) : d[i] = entries[k]
        IN  /\ Len(d) <= 3
            /\ \A i \in 1..Len(d) : \E k \in 1..3 : d[i] = entries[k]
            /\ \A i, j \in 1..Len(d) : i < j => Rank(i) < Rank(j)
            /\ Has(1) <=> brand1[1].colors.primary # brand2[1].colors.primary
            /\ Has(2) <=> ~EqualIgnoringCase(brand1[1].typography.headings,
                                             brand2[1].typography.headings)
            /\ Has(3) <=> ~EqualIgnoringCase(brand1[1].typography.body,
                                             brand2[1].typography.body)

\* C12 witness: the primary colours and the body fonts differ, the headings
\* differ in case only and the secondary colours differ; two entries.
C12_Witness ==
    /\ pc = "returned"
    /\ brand1[1].colors.primary # brand2[1].colors.primary
    /\ brand1[1].colors.secondary # brand2[1].colors.secondary
    /\ brand1[1].typography.headings # brand2[1].typography.headings
    /\ EqualIgnoringCase(brand1[1].typography.headings, brand2[1].typography.headings)
    /\ Len(comparison[1].value.comparison.differences) = 2
    /\ comparison[1].value.comparison.differences[2]
          = Message(LabelBody, brand1[1].typography.body, brand2[1].typography.body)

(***************************************************************************)
(* Claims about the CSS variable synthesis.                                *)
(***************************************************************************)
\* The custom properties in their order, each with the record's value for
\* it (None when the record has none).
PropertyTable(b) ==
    << << <<"c", "o", "l", "o", "r", "-", "p", "r", "i", "m", "a", "r", "y">>, Some(b.colors.primary) >>,
       << <<"c", "o", "l", "o", "r", "-", "s", "e", "c", "o", "n", "d", "a", "r", "y">>, b.colors.secondary >>,
       << <<"c", "o", "l", "o", "r", "-", "a", "c", "c", "e", "n", "t">>, b.colors.accent >>,
       << <<"c", "o", "l", "o", "r", "-", "b", "a", "c", "k", "g", "r", "o", "u", "n", "d">>, b.colors.background >>,
       << <<"c", "o", "l", "o", "r", "-", "t", "e", "x", "t">>, b.colors.text >>,
       << <<"f", "o", "n", "t", "-", "h", "e", "a", "d", "i", "n", "g">>, Some(b.typography.headings) >>,
       << <<"f", "o", "n", "t", "-", "b", "o", "d", "y">>, Some(b.typography.body) >>,
       << <<"s", "p", "a", "c", "i", "n", "g", "-", "g", "r", "i", "d">>, Some(b.spacing.grid) >>,
       << <<"b", "t", "n", "-", "p", "r", "i", "m", "a", "r", "y", "-", "b", "g">>,
          IF b.buttons.primary = None THEN None ELSE Some(b.buttons.primary[1].bg) >>,
       << <<"b", "t", "n", "-", "p", "r", "i", "m", "a", "r", "y", "-", "t", "e", "x", "t">>,
          IF b.buttons.primary = None THEN None ELSE Some(b.buttons.primary[1].text) >>,
       << <<"b", "t", "n", "-", "p", "r", "i", "m", "a", "r", "y", "-", "r", "a", "d", "i", "u", "s">>,
          IF b.buttons.primary = None THEN None ELSE Some(b.buttons.primary[1].border_radius) >> >>

\* The lines of the :root block of the returned css, without their indent.
RootLines ==
    LET css == generated[1].css
        closing == Min(Occurrences(css, <<"\n", "}", "\n", "\n">>))
        lines == split(SubSeq(css, 9, closing - 1), <<"\n">>)
    IN  [i \in 1..Len(lines) |-> Trimmed(lines[i])]

\* The line of a property that has a value: "--name: value;"
PropertyLine(entry) == <<"-", "-">> \o entry[1] \o <<":", " ">> \o entry[2][1] \o <<";">>

\* A property whose value the record holds.
Present(entry) == entry[2] # None

\* A property whose value the record holds, other than an empty colour.
PresentNotEmpty(entry) ==
    /\ entry[2] # None
    /\ (entry[2][1] = <<>> =>
           entry[1] \notin { <<"c", "o", "l", "o", "r", "-", "s", "e", "c", "o", "n", "d", "a", "r", "y">>,
                             <<"c", "o", "l", "o", "r", "-", "a", "c", "c", "e", "n", "t">>,
                             <<"c", "o", "l", "o", "r", "-", "b", "a", "c", "k", "g", "r", "o", "u", "n", "d">>,
                             <<"c", "o", "l", "o", "r", "-", "t", "e", "x", "t">> })

\* C13 (as claimed): the :root block holds one declaration per line, in the
\* fixed order of the properties, one for every property the record holds a
\* value for (an optional colour exactly when it is present), with the value
\* unchanged.
C13_DeclarationsWhenPresent ==
    pc = "generated" =>
        LET emitted == SelectSeq(PropertyTable(brand_data[1]), Present)
        IN  RootLines = [i \in 1..Len(emitted) |-> PropertyLine(emitted[i])]

\* C13 (amended): as above, but an optional colour is emitted exactly when it
\* is present and not the empty string.
C13_Declarations ==
    pc = "generated" =>
        LET emitted == SelectSeq(PropertyTable(brand_data[1]), PresentNotEmpty)
        IN  RootLines = [i \in 1..Len(emitted) |-> PropertyLine(emitted[i])]

\* C13 witness: a record with all five colours and a primary button has
\* been synthesized into eleven declarations.
C13_Witness ==
    /\ pc = "generated"
    /\ brand_data[1].colors.secondary # None /\ brand_data[1].colors.accent # None
    /\ brand_data[1].colors.background # None /\ brand_data[1].colors.text # None
    /\ brand_data[1].buttons.primary # None
    /\ Len(RootLines) = 11

(***************************************************************************)
(* Claims about credentials.                                               *)
(***************************************************************************)
\* A key that is there and not empty.
NonEmptyKey(k) == k # None /\ Len(k[1]) > 0

\* C16: a constructed FirecrawlService (GeminiService) holds the supplied key
\* when one is given, otherwise the value of FIRECRAWL_API_KEY
\* (GOOGLE_API_KEY); the constructor raises ValueError "<NAME> is required"
\* exactly when neither is a non-empty key, and then no HTTP client and no
\* model handle exists.
C16_CredentialResolution ==
    pc = "constructed" =>
        LET firecrawl == tool = Some("FirecrawlService")
            supplied == arg[1]
            from_env == IF firecrawl THEN env.FIRECRAWL_API_KEY ELSE env.GOOGLE_API_KEY
            out == outcome[1]
        IN  /\ out.ok <=> (NonEmptyKey(supplied) \/ NonEmptyKey(from_env))
            /\ (out.ok /\ NonEmptyKey(supplied)) => out.value.api_key = supplied[1]
            /\ (out.ok /\ ~NonEmptyKey(supplied)) => out.value.api_key = from_env[1]
            /\ ~out.ok =>
                  /\ out.error = "ValueError"
                  /\ out.message = IF firecrawl
                                   THEN <<"F", "I", "R", "E", "C", "R", "A", "W", "L", "_", "A", "P", "I", "_",
                                     "K", "E", "Y", " ", "i", "s", " ", "r", "e", "q", "u", "i", "r", "e",
                                     "d">>
                                   ELSE <<"G", "O", "O", "G", "L", "E", "_", "A", "P", "I", "_", "K", "E", "Y",
                                     " ", "i", "s", " ", "r", "e", "q", "u", "i", "r", "e", "d">>
                  /\ ~client_open /\ ~gemini_ready

\* C16 witness: a FirecrawlService was constructed with a supplied key while
\* the environment holds another key.
C16_Witness ==
    /\ pc = "constructed"
    /\ tool = Some("FirecrawlService")
    /\ NonEmptyKey(arg[1]) /\ NonEmptyKey(env.FIRECRAWL_API_KEY)
    /\ arg[1] # env.FIRECRAWL_API_KEY
    /\ outcome[1].ok /\ client_open

(***************************************************************************)
(* Claims about the tools.                                                 *)
(***************************************************************************)
\* The invocation has completed, by a return or by an exception.
Completed == pc \in {"returned", "raised"}

\* C14 (as claimed): an invocation that has completed has returned a record
\* or has failed with a missing-credential error or with a transport error
\* of a collaborator; it fails in no other way.
C14_OutcomeTotality ==
    Completed =>
        /\ outcome # None
        /\ \/ outcome[1].ok
           \/ outcome[1].error \in {"ValueError", "HTTPStatusError", "GoogleAPIError"}

\* C15 (as claimed): a missing credential is reported when the server is
\* created: no tool has been invoked and no collaborator request has been
\* issued when the error is raised.
C15_StartupError ==
    (outcome # None /\ ~outcome[1].ok /\ outcome[1].error = "ValueError") =>
        (tool = None /\ requests = <<>>)

\* C17 (as claimed): when an invocation has completed, by a return or by
\* any error, the extraction client it constructed is closed.
C17_ClientReleased == Completed => ~client_open

\* The error a reply of a collaborator stands for, if it is a failure: the
\* error of the generation request, or the status error of an extraction
\* reply whose status is not 2xx.
FailureOf(r) ==
    IF "error" \in DOMAIN r THEN Some(r.error)
    ELSE IF "status" \in DOMAIN r /\ ~(200 <= r.status /\ r.status <= 299)
    THEN Some("HTTPStatusError")
    ELSE None

\* C18: a collaborator request is issued only while no other is in flight
\* and nothing has failed, and it is none of the requests issued before; a
\* reply answers the one request in flight, and when it is a failure the
\* invocation is left with that error at once; an error, once raised, stays
\* the outcome of the invocation, which only closes its client and ends.
C18_NoRetries ==
    [][ /\ requests' # requests =>
              /\ in_flight = None /\ outcome = None
              /\ Len(requests') = Len(requests) + 1
              /\ SubSeq(requests', 1, Len(requests)) = requests
              /\ \A i \in 1..Len(requests) : requests[i] # requests'[Len(requests')]
        /\ replies' # replies =>
              /\ in_flight # None /\ in_flight' = None /\ requests' = requests
              /\ Len(replies') = Len(requests)
              /\ SubSeq(replies', 1, Len(replies)) = replies
              /\ FailureOf(replies'[Len(replies')]) # None =>
                    /\ outcome' = Some([ok |-> FALSE,
                                        error |-> FailureOf(replies'[Len(replies')])[1]])
                    /\ pc' \in {"close", "raised"}
        /\ (outcome # None /\ ~outcome[1].ok) =>
              (outcome' = outcome /\ requests' = requests
               /\ pc' \in {"close", "closing", "raised"}) ]_vars

\* C18 witness: compare_brands has failed on the extraction of url1, whose
\* reply had status 500, and has completed without a second request.
C18_Witness ==
    /\ pc = "raised"
    /\ tool = Some("compare_brands")
    /\ requests = <<"extract1">>
    /\ replies = <<[status |-> 500, body |-> <<>>]>>
    /\ outcome[1].error = "HTTPStatusError"

\* C20: no extraction client is open while a generation-side operation is
\* about to run or in progress, and in replicate_website and
\* apply_brand_to_template the generation client exists only after the
\* extraction has returned its record.
C20_ClosedBeforeGeneration ==
    /\ pc \in {"generate", "await_generate", "score"} => ~client_open
    /\ (gemini_ready /\ tool \in {Some("replicate_website"), Some("apply_brand_to_template")})
          => (brand1 # None /\ requests # <<>> /\ requests[1] = "extract1" /\ ~client_open)

\* C20 witness: replicate_website awaits its generation request; the
\* extraction has returned and its client is closed.
C20_Witness ==
    /\ tool = Some("replicate_website")
    /\ in_flight = Some("generate")
    /\ requests = <<"extract1", "generate">>
    /\ brand1 # None
    /\ ~client_open

(***************************************************************************)
(* Claims about a model text with one marker of the pair.                  *)
(***************************************************************************)
\* t holds ---HTML--- but not ---CSS---.
LoneHtmlMarker(t) == Occurrences(t, MarkHTML) # {} /\ Occurrences(t, MarkCSS) = {}

\* C19 (as claimed): for a model text with ---HTML--- but without ---CSS---,
\* the fenced-block fallback is not tried: html and the parsed CSS body are
\* empty, also when the text holds fenced html or css blocks.
C19_NoFallbackOnLoneMarker ==
    (pc = "generated" /\ LoneHtmlMarker(text[1])) =>
        (generated[1].html = <<>> /\ CssBody = <<>>)

\* C19 (amended): for a model text with ---HTML--- but without ---CSS---, the
\* fenced-block fallback is tried: html is the trimmed text that follows the
\* first html tag, up to the next html tag or the end of the text and cut at
\* the first fence inside that stretch; the parsed CSS body is the same for
\* the css tag; a part whose tag does not occur is empty.
C19_LoneMarkerFallsBack ==
    (pc = "generated" /\ LoneHtmlMarker(text[1])) =>
        /\ generated[1].html = AfterFirst(text[1], FenceHTML, Fence)
        /\ CssBody = AfterFirst(text[1], FenceCSS, Fence)
        /\ Occurrences(text[1], FenceHTML) = {} => generated[1].html = <<>>
        /\ Occurrences(text[1], FenceCSS) = {} => CssBody = <<>>

\* C19 witness: a text with ---HTML---, no ---CSS--- and a fenced css block
\* has given a non-empty CSS body.
C19_Witness ==
    /\ pc = "generated"
    /\ LoneHtmlMarker(text[1])
    /\ FencedBlocks(text[1], FenceCSS) # {}
    /\ CssBody # <<>>
====
